---- MODULE Spec2Model ----
(***************************************************************************)
(* Parameter resolution and credential materialisation of the Data Science *)
(* Pipelines operator (controllers/dspipeline_params.go, first revision,   *)
(* lines 1-566; controllers/config/defaults.go; api/v1alpha1 types).       *)
(*                                                                         *)
(* Conventions.  A Go pointer is a sequence of length 0 (nil) or 1 (the    *)
(* pointee): Nil is <<>>, Some(x) is <<x>>.  Names, hosts and image        *)
(* references are strings.  Credential material ([]byte in the secret, the *)
(* base64 text in the resolved record) is a sequence of byte values, so    *)
(* that encoding and decoding are computed and not assumed.  A secret's    *)
(* Data map is a set of <<key, bytes>> pairs; a key that is not in the map *)
(* reads as the empty byte string, as a nil []byte does in Go.             *)
(***************************************************************************)
EXTENDS Integers, Sequences, FiniteSets, TLC

(***************************************************************************)
(* Bounds of the model.                                                    *)
(***************************************************************************)
\* time.Now().UnixNano() (dspipeline_params.go:125) runs from 1 to MaxSeed.
MaxSeed == 2

Seeds == 1..MaxSeed

\* The reconcile workers that may run a resolution pass at the same time.
Procs == {"r1", "r2"}

Nil == <<>>

Some(x) == <<x>>

(***************************************************************************)
(* controllers/config/defaults.go                                          *)
(***************************************************************************)
DefaultImageValue == "MustSetInConfig"

MLPipelineUIConfigMapPrefix == "ds-pipeline-ui-configmap-"

ArtifactScriptConfigMapNamePrefix == "ds-pipeline-artifact-script-"

ArtifactScriptConfigMapKey == "artifact_script"

DSPServicePrefix == "ds-pipeline"

DBSecretNamePrefix == "ds-pipeline-db-"

DBSecretKey == "password"

MariaDBName == "mlpipeline"

MariaDBHostPrefix == "mariadb"

MariaDBHostPort == "3306"

MariaDBUser == "mlpipeline"

MariaDBNamePVCSize == "10Gi"

MinioHostPrefix == "minio"

MinioPort == "9000"

MinioScheme == "http"

MinioDefaultBucket == "mlpipeline"

ObjectStorageSecretName == "mlpipeline-minio-artifact"

ObjectStorageAccessKey == "accesskey"

ObjectStorageSecretKey == "secretkey"

MlmdGrpcPort == "8080"

APIServerImagePath == "Images.ApiServer"

APIServerArtifactImagePath == "Images.Artifact"

PersistenceAgentImagePath == "Images.PersistentAgent"

ScheduledWorkflowImagePath == "Images.ScheduledWorkflow"

APIServerCacheImagePath == "Images.Cache"

APIServerMoveResultsImagePath == "Images.MoveResultsImage"

MariaDBImagePath == "Images.MariaDB"

OAuthProxyImagePath == "Images.OAuthProxy"

MlmdEnvoyImagePath == "Images.MlmdEnvoy"

MlmdGRPCImagePath == "Images.MlmdGRPC"

MlmdWriterImagePath == "Images.MlmdWriter"

APIServerImagePathV2Argo == "ImagesV2.Argo.ApiServer"

APIServerArtifactImagePathV2Argo == "ImagesV2.Argo.Artifact"

APIServerCacheImagePathV2Argo == "ImagesV2.Argo.Cache"

APIServerMoveResultsImagePathV2Argo == "ImagesV2.Argo.MoveResultsImage"

PersistenceAgentImagePathV2Argo == "ImagesV2.Argo.PersistentAgent"

ScheduledWorkflowImagePathV2Argo == "ImagesV2.Argo.ScheduledWorkflow"

MlmdEnvoyImagePathV2Argo == "ImagesV2.Argo.MlmdEnvoy"

MlmdGRPCImagePathV2Argo == "ImagesV2.Argo.MlmdGRPC"

MlmdWriterImagePathV2Argo == "ImagesV2.Argo.MlmdWriter"

APIServerImagePathV2Tekton == "ImagesV2.Tekton.ApiServer"

APIServerArtifactImagePathV2Tekton == "ImagesV2.Tekton.Artifact"

APIServerCacheImagePathV2Tekton == "ImagesV2.Tekton.Cache"

APIServerMoveResultsImagePathV2Tekton == "ImagesV2.Tekton.MoveResultsImage"

PersistenceAgentImagePathV2Tekton == "ImagesV2.Tekton.PersistentAgent"

ScheduledWorkflowImagePathV2Tekton == "ImagesV2.Tekton.ScheduledWorkflow"

MlmdEnvoyImagePathV2Tekton == "ImagesV2.Tekton.MlmdEnvoy"

MlmdGRPCImagePathV2Tekton == "ImagesV2.Tekton.MlmdGRPC"

MlmdWriterImagePathV2Tekton == "ImagesV2.Tekton.MlmdWriter"

\* createResourceRequirement(RequestsCPU, RequestsMemory, LimitsCPU, LimitsMemory)
createResourceRequirement(RequestsCPU, RequestsMemory, LimitsCPU, LimitsMemory) ==
    [Requests |-> Some([CPU |-> RequestsCPU, Memory |-> RequestsMemory]),
     Limits   |-> Some([CPU |-> LimitsCPU, Memory |-> LimitsMemory])]

APIServerResourceRequirements == createResourceRequirement("250m", "500Mi", "500m", "1Gi")

PersistenceAgentResourceRequirements == createResourceRequirement("120m", "500Mi", "250m", "1Gi")

ScheduledWorkflowResourceRequirements == createResourceRequirement("120m", "100Mi", "250m", "250Mi")

MariaDBResourceRequirements == createResourceRequirement("300m", "800Mi", "1", "1Gi")

MinioResourceRequirements == createResourceRequirement("200m", "100Mi", "250m", "1Gi")

MlPipelineUIResourceRequirements == createResourceRequirement("100m", "256Mi", "100m", "256Mi")

MlmdEnvoyResourceRequirements == createResourceRequirement("100m", "256Mi", "100m", "256Mi")

MlmdGRPCResourceRequirements == createResourceRequirement("100m", "256Mi", "100m", "256Mi")

MlmdWriterResourceRequirements == createResourceRequirement("100m", "256Mi", "100m", "256Mi")

(***************************************************************************)
(* encoding/base64 (StdEncoding) over byte sequences.                      *)
(***************************************************************************)
\* The ASCII code of the base64 digit of a 6-bit value.
B64Char(v) ==
    IF v < 26 THEN 65 + v
    ELSE IF v < 52 THEN 97 + (v - 26)
    ELSE IF v < 62 THEN 48 + (v - 52)
    ELSE IF v = 62 THEN 43
    ELSE 47

\* The 6-bit value of a base64 digit (61 is the padding "=").
B64Val(c) ==
    IF c >= 65 /\ c <= 90 THEN c - 65
    ELSE IF c >= 97 /\ c <= 122 THEN c - 97 + 26
    ELSE IF c >= 48 /\ c <= 57 THEN c - 48 + 52
    ELSE IF c = 43 THEN 62
    ELSE 63

RECURSIVE Base64Encode(_)
\* base64.StdEncoding.EncodeToString: three bytes to four digits, "=" padding.
Base64Encode(b) ==
    IF Len(b) = 0 THEN <<>>
    ELSE IF Len(b) = 1 THEN
        << B64Char(b[1] \div 4), B64Char((b[1] % 4) * 16), 61, 61 >>
    ELSE IF Len(b) = 2 THEN
        << B64Char(b[1] \div 4),
           B64Char((b[1] % 4) * 16 + (b[2] \div 16)),
           B64Char((b[2] % 16) * 4),
           61 >>
    ELSE
        << B64Char(b[1] \div 4),
           B64Char((b[1] % 4) * 16 + (b[2] \div 16)),
           B64Char((b[2] % 16) * 4 + (b[3] \div 64)),
           B64Char(b[3] % 64) >>
        \o Base64Encode(SubSeq(b, 4, Len(b)))

RECURSIVE Base64Decode(_)
\* The inverse, as the API server applies it to a Secret manifest's data field.
Base64Decode(s) ==
    IF Len(s) < 4 THEN <<>>
    ELSE
        LET a == B64Val(s[1])
            b == B64Val(s[2])
            c == B64Val(s[3])
            d == B64Val(s[4])
            rest == Base64Decode(SubSeq(s, 5, Len(s)))
        IN  IF s[3] = 61 THEN << a * 4 + (b \div 16) >>
            ELSE IF s[4] = 61 THEN
                << a * 4 + (b \div 16), (b % 16) * 16 + (c \div 4) >>
            ELSE << a * 4 + (b \div 16), (b % 16) * 16 + (c \div 4), (c % 4) * 64 + d >>
                 \o rest

(***************************************************************************)
(* passwordGen (dspipeline_params.go:124-132).                             *)
(***************************************************************************)
\* chars[i] of "abcdefghijklmnopqrstuvwxyzABCDEFGHIJKLMNOPQRSTUVWXYZ1234567890".
PasswordChar(i) ==
    IF i < 26 THEN 97 + i
    ELSE IF i < 52 THEN 65 + (i - 26)
    ELSE IF i < 61 THEN 49 + (i - 52)
    ELSE 48

RECURSIVE RandState(_, _)
\* The generator's state after k draws from seed: math/rand is a deterministic
\* function of its seed; the stream itself is abstracted by a small congruence.
RandState(seed, k) ==
    IF k = 0 THEN seed
    ELSE (RandState(seed, k - 1) * 37 + 11) % 1009

\* rand.Intn(len(chars)) at the k-th draw.
RandIntn(seed, k) == RandState(seed, k) % 62

\* passwordGen(n), the clock value that seeds it being seed.
passwordGen(n, seed) == [i \in 1..n |-> PasswordChar(RandIntn(seed, i))]

\* base64.StdEncoding.EncodeToString([]byte(passwordGen(n))) for the three
\* lengths the resolver asks for, per clock value.
GeneratedText ==
    [n \in {12, 16, 24}, seed \in Seeds |-> Base64Encode(passwordGen(n, seed))]

(***************************************************************************)
(* The DesiredState documents of the model (api/v1alpha1/dspipeline_types). *)
(* Only the fields the resolver reads or writes are carried.               *)
(***************************************************************************)
ResourceName == "sample"

ResourceNamespace == "dsp-ns"

\* A second resource of the same namespace.
OtherResourceName == "other"

\* Secret references a user may put in the document.
ExtDBSecret == [Name |-> "my-db-secret", Key |-> "pw"]

MariaDBSecret == [Name |-> "mariadb-custom", Key |-> "dbpw"]

ExtS3Secret == [SecretName |-> "my-s3-secret", AccessKey |-> "ak", SecretKey |-> "sk"]

MinioS3Secret == [SecretName |-> "minio-custom", AccessKey |-> "mak", SecretKey |-> "msk"]

UserResources == [Requests |-> Some([CPU |-> "1", Memory |-> "2Gi"]), Limits |-> Nil]

\* type MariaDB, set to only {deploy: true}.
MariaDBDeployOnly ==
    [Deploy |-> TRUE, Image |-> "", Username |-> "", PasswordSecret |-> Nil,
     DBName |-> "", PVCSize |-> "", Resources |-> Nil]

\* type MariaDB with every field set by the user, its secret override included.
MariaDBCustom ==
    [Deploy |-> TRUE, Image |-> "quay.io/mariadb:custom", Username |-> "admin",
     PasswordSecret |-> Some(MariaDBSecret), DBName |-> "kfp", PVCSize |-> "20Gi",
     Resources |-> Some(UserResources)]

\* type ExternalDB (the spec's scenario 2).
ExternalDBExample ==
    [Host |-> "db.example.com", Port |-> "5432", Username |-> "svc",
     DBName |-> "pipelines", PasswordSecret |-> Some(ExtDBSecret)]

\* type Database: the values of spec.database, Nil being an absent block.
DatabaseOpts ==
    { Nil,
      Some([MariaDB |-> Nil, ExternalDB |-> Nil]),
      Some([MariaDB |-> Some(MariaDBDeployOnly), ExternalDB |-> Nil]),
      Some([MariaDB |-> Some(MariaDBCustom), ExternalDB |-> Nil]),
      Some([MariaDB |-> Nil, ExternalDB |-> Some(ExternalDBExample)]),
      Some([MariaDB |-> Some(MariaDBCustom), ExternalDB |-> Some(ExternalDBExample)]),
      Some([MariaDB |-> Some(MariaDBCustom),
            ExternalDB |-> Some([ExternalDBExample EXCEPT !.PasswordSecret = Nil])]) }

\* type Minio without the required image.
MinioNoImage ==
    [Deploy |-> TRUE, Bucket |-> "", S3CredentialSecret |-> Nil, PVCSize |-> "",
     Resources |-> Nil, Image |-> ""]

\* type Minio with only the image set.
MinioImageOnly == [MinioNoImage EXCEPT !.Image = "quay.io/minio:latest"]

\* type Minio with every field set by the user, its secret override included.
MinioCustom ==
    [Deploy |-> TRUE, Bucket |-> "artifacts", S3CredentialSecret |-> Some(MinioS3Secret),
     PVCSize |-> "20Gi", Resources |-> Some(UserResources), Image |-> "quay.io/minio:custom"]

\* type ExternalStorage: https without a port, Secure left unset.
ExternalStorageExample ==
    [Host |-> "s3.example.com", Bucket |-> "ext-bucket", Scheme |-> "https",
     S3CredentialSecret |-> Some(ExtS3Secret), Secure |-> Nil, Port |-> ""]

\* type ExternalStorage: http with a port, Secure left unset; and Secure set
\* against the scheme, both ways.
ExternalStorageVariants ==
    { [ExternalStorageExample EXCEPT !.Scheme = "http", !.Port = "8080"],
      [ExternalStorageExample EXCEPT !.Scheme = "http", !.Port = "8080", !.Secure = Some(TRUE)],
      [ExternalStorageExample EXCEPT !.Secure = Some(FALSE)] }

\* type ObjectStorage: the values of spec.objectStorage, Nil being an absent block.
ObjectStorageOpts ==
    { Nil,
      Some([Minio |-> Nil, ExternalStorage |-> Nil]),
      Some([Minio |-> Some(MinioNoImage), ExternalStorage |-> Nil]),
      Some([Minio |-> Some(MinioImageOnly), ExternalStorage |-> Nil]),
      Some([Minio |-> Some(MinioCustom), ExternalStorage |-> Nil]),
      Some([Minio |-> Nil, ExternalStorage |-> Some(ExternalStorageExample)]),
      Some([Minio |-> Some(MinioCustom), ExternalStorage |-> Some(ExternalStorageExample)]) }
    \cup { Some([Minio |-> Nil, ExternalStorage |-> Some(ext)]) : ext \in ExternalStorageVariants }

\* type APIServer set to only {deploy: true}.
APIServerDeployOnly ==
    [Deploy |-> TRUE, Image |-> "", ArtifactImage |-> "", CacheImage |-> "",
     MoveResultsImage |-> "", ArtifactScriptConfigMap |-> Nil, Resources |-> Nil]

\* type APIServer with its own image set by the user.
APIServerUserImage == [APIServerDeployOnly EXCEPT !.Image = "quay.io/apiserver:custom"]

\* type PersistenceAgent / ScheduledWorkflow set to only {deploy: true}.
AgentDeployOnly == [Deploy |-> TRUE, Image |-> "", Resources |-> Nil]

\* type MlPipelineUI with its required image.
MlPipelineUIExample ==
    [Deploy |-> TRUE, ConfigMapName |-> "", Resources |-> Nil, Image |-> "quay.io/ui:latest"]

\* type MlPipelineUI set to only {deploy: true}.
MlPipelineUIDeployOnly == [MlPipelineUIExample EXCEPT !.Image = ""]

\* type MLMD set to only {deploy: true}.
MLMDDeployOnly == [Deploy |-> TRUE, Envoy |-> Nil, GRPC |-> Nil, Writer |-> Nil]

\* type MLMD with its deploy flag off.
MLMDDeployFalse == [MLMDDeployOnly EXCEPT !.Deploy = FALSE]

\* The component blocks of the documents: the blocks the CRD defaults to
\* {deploy: true}, with the version and engine driver varied (recognized and
\* not), the metadata block present and absent, and the optional UI block
\* present with and without its image.
VersionsAndDrivers ==
    { <<"v1", "">>, <<"v1", "argo">>, <<"v1", "tekton">>, <<"v1", "kubeflow">>,
      <<"v2", "argo">>, <<"v2", "tekton">>, <<"v2", "kubeflow">> }

ComponentOpts ==
    { [APIServer |-> Some(APIServerDeployOnly), PersistenceAgent |-> Some(AgentDeployOnly),
       ScheduledWorkflow |-> Some(AgentDeployOnly), MlPipelineUI |-> Nil,
       MLMD |-> Some(MLMDDeployOnly), DSPVersion |-> ve[1], EngineDriver |-> ve[2]] :
         ve \in VersionsAndDrivers }
    \cup
    { [APIServer |-> Some(APIServerDeployOnly), PersistenceAgent |-> Some(AgentDeployOnly),
       ScheduledWorkflow |-> Some(AgentDeployOnly), MlPipelineUI |-> Nil,
       MLMD |-> Nil, DSPVersion |-> ve[1], EngineDriver |-> ve[2]] :
         ve \in { <<"v2", "argo">>, <<"v2", "tekton">>, <<"v2", "kubeflow">> } }
    \cup
    { [APIServer |-> Some(APIServerDeployOnly), PersistenceAgent |-> Some(AgentDeployOnly),
       ScheduledWorkflow |-> Some(AgentDeployOnly), MlPipelineUI |-> Nil,
       MLMD |-> Some(MLMDDeployFalse), DSPVersion |-> ve[1], EngineDriver |-> ve[2]] :
         ve \in { <<"v1", "">>, <<"v2", "kubeflow">> } }
    \cup
    { [APIServer |-> Some(APIServerUserImage), PersistenceAgent |-> Some(AgentDeployOnly),
       ScheduledWorkflow |-> Some(AgentDeployOnly), MlPipelineUI |-> Nil,
       MLMD |-> Some(MLMDDeployOnly), DSPVersion |-> "v1", EngineDriver |-> ""] }
    \cup
    { [APIServer |-> Nil, PersistenceAgent |-> Nil, ScheduledWorkflow |-> Nil,
       MlPipelineUI |-> ui, MLMD |-> Some(MLMDDeployOnly),
       DSPVersion |-> ve[1], EngineDriver |-> ve[2]] :
         ui \in {Some(MlPipelineUIExample), Some(MlPipelineUIDeployOnly)},
         ve \in {<<"v2", "argo">>, <<"v2", "tekton">>} }

DefaultComponents ==
    [APIServer |-> Some(APIServerDeployOnly), PersistenceAgent |-> Some(AgentDeployOnly),
     ScheduledWorkflow |-> Some(AgentDeployOnly), MlPipelineUI |-> Nil,
     MLMD |-> Some(MLMDDeployOnly), DSPVersion |-> "v1", EngineDriver |-> ""]

\* type DataSciencePipelinesApplication.
MakeDSPA(c, db, os) ==
    [Name |-> ResourceName, Namespace |-> ResourceNamespace,
     Spec |-> [APIServer |-> c.APIServer, PersistenceAgent |-> c.PersistenceAgent,
               ScheduledWorkflow |-> c.ScheduledWorkflow, Database |-> db,
               MlPipelineUI |-> c.MlPipelineUI, ObjectStorage |-> os, MLMD |-> c.MLMD,
               DSPVersion |-> c.DSPVersion, EngineDriver |-> c.EngineDriver]]

DefaultDatabase == Some([MariaDB |-> Some(MariaDBDeployOnly), ExternalDB |-> Nil])

DefaultObjectStorage == Some([Minio |-> Some(MinioImageOnly), ExternalStorage |-> Nil])

\* The documents of the model: every database block over the default object
\* storage, every object-storage block over the default database, the
\* documents whose two credentials are both user-supplied, and the component
\* variations over the default database and object storage.
DSPAs ==
    { MakeDSPA(DefaultComponents, db, DefaultObjectStorage) : db \in DatabaseOpts }
    \cup { MakeDSPA(DefaultComponents, DefaultDatabase, os) : os \in ObjectStorageOpts }
    \cup { MakeDSPA(DefaultComponents,
                    Some([MariaDB |-> Nil, ExternalDB |-> Some(ExternalDBExample)]),
                    Some([Minio |-> Nil, ExternalStorage |-> Some(ExternalStorageExample)])),
           MakeDSPA(DefaultComponents,
                    Some([MariaDB |-> Some(MariaDBCustom), ExternalDB |-> Nil]),
                    Some([Minio |-> Some(MinioCustom), ExternalStorage |-> Nil])) }
    \cup { MakeDSPA(c, DefaultDatabase, DefaultObjectStorage) : c \in ComponentOpts }

(***************************************************************************)
(* The resolver (controllers/dspipeline_params.go).                        *)
(***************************************************************************)
VARIABLES
    viper,   \* the DefaultsRegistry: the configuration paths that are set, with their values
    store,   \* the cluster's secrets: name -> Nil (absent) or Some(Data)
    dsp,     \* the DesiredState document each worker resolves
    pass,    \* each worker's resolution pass: position, resolved record, outcome
    first,   \* the credentials of the first pass that succeeded and was persisted
    clock,   \* time.Now().UnixNano(), the seed of the next passwordGen
    mlmdLoop \* ReconcileMLMD: position, the templates it handed to Apply, the first
             \* of them Apply failed on (0: none), the error it returned

vars == << viper, store, dsp, pass, first, clock, mlmdLoop >>

\* config.GetStringConfigWithDefault
GetStringConfigWithDefault(configName, value) ==
    IF configName \notin DOMAIN viper THEN value ELSE viper[configName]

\* UsingV2Pipelines were every version taken for v2.
UsingV2PipelinesAlways(d) == TRUE

UsingV2Pipelines(d) == d.Spec.DSPVersion = "v2"

UsingArgoEngineDriver(d) == d.Spec.EngineDriver = "argo"

UsingTektonEngineDriver(d) == d.Spec.DSPVersion = "tekton"

UsingExternalDB(d) ==
    d.Spec.Database # Nil /\ d.Spec.Database[1].ExternalDB # Nil

UsingExternalStorage(d) ==
    d.Spec.ObjectStorage # Nil /\ d.Spec.ObjectStorage[1].ExternalStorage # Nil

\* setStringDefault were it to write the default over the value.
setStringDefaultOverrides(defaultValue, value) == defaultValue

\* setStringDefault were it to leave the value as it finds it.
setStringDefaultKeepsValue(defaultValue, value) == value

\* setStringDefault: the value left in *value.
setStringDefault(defaultValue, value) ==
    IF value = "" THEN defaultValue ELSE value

\* setResourcesDefault: the pointer left in *value.
setResourcesDefault(defaultValue, value) ==
    IF value = Nil THEN Some(defaultValue) ELSE value

\* The image path of a component: the legacy path, or under v2 the path of the
\* engine driver in use; under v2 with neither driver the legacy path stays.
SelectImagePath(d, legacy, argo, tekton) ==
    IF UsingV2Pipelines(d)
    THEN IF UsingArgoEngineDriver(d) THEN argo
         ELSE IF UsingTektonEngineDriver(d) THEN tekton
         ELSE legacy
    ELSE legacy

\* ExtractParams, the APIServer block (lines 474-511).
ResolveAPIServer(d, a) ==
    LET serverImageFromConfig ==
            GetStringConfigWithDefault(
                SelectImagePath(d, APIServerImagePath, APIServerImagePathV2Argo,
                                APIServerImagePathV2Tekton), DefaultImageValue)
        artifactImageFromConfig ==
            GetStringConfigWithDefault(
                SelectImagePath(d, APIServerArtifactImagePath, APIServerArtifactImagePathV2Argo,
                                APIServerArtifactImagePathV2Tekton), DefaultImageValue)
        cacheImageFromConfig ==
            GetStringConfigWithDefault(
                SelectImagePath(d, APIServerCacheImagePath, APIServerCacheImagePathV2Argo,
                                APIServerCacheImagePathV2Tekton), DefaultImageValue)
        moveResultsImageFromConfig ==
            GetStringConfigWithDefault(
                SelectImagePath(d, APIServerMoveResultsImagePath,
                                APIServerMoveResultsImagePathV2Argo,
                                APIServerMoveResultsImagePathV2Tekton), DefaultImageValue)
    IN  [a EXCEPT
            !.Image = setStringDefault(serverImageFromConfig, @),
            !.ArtifactImage = setStringDefault(artifactImageFromConfig, @),
            !.CacheImage = setStringDefault(cacheImageFromConfig, @),
            !.MoveResultsImage = setStringDefault(moveResultsImageFromConfig, @),
            !.Resources = setResourcesDefault(APIServerResourceRequirements, @),
            !.ArtifactScriptConfigMap =
                IF @ = Nil
                THEN Some([Name |-> ArtifactScriptConfigMapNamePrefix \o d.Name,
                           Key |-> ArtifactScriptConfigMapKey])
                ELSE @]

\* ExtractParams, the PersistenceAgent block (lines 512-524).
ResolvePersistenceAgent(d, a) ==
    [a EXCEPT
        !.Image = setStringDefault(
            GetStringConfigWithDefault(
                SelectImagePath(d, PersistenceAgentImagePath, PersistenceAgentImagePathV2Argo,
                                PersistenceAgentImagePathV2Tekton), DefaultImageValue), @),
        !.Resources = setResourcesDefault(PersistenceAgentResourceRequirements, @)]

\* ExtractParams, the ScheduledWorkflow block (lines 525-538).
ResolveScheduledWorkflow(d, a) ==
    [a EXCEPT
        !.Image = setStringDefault(
            GetStringConfigWithDefault(
                SelectImagePath(d, ScheduledWorkflowImagePath, ScheduledWorkflowImagePathV2Argo,
                                ScheduledWorkflowImagePathV2Tekton), DefaultImageValue), @),
        !.Resources = setResourcesDefault(ScheduledWorkflowResourceRequirements, @)]

\* ExtractParams, the MlPipelineUI block once its image is known to be set
\* (lines 543-545).
ResolveMlPipelineUI(d, u) ==
    [u EXCEPT
        !.Image = d.Spec.MlPipelineUI[1].Image,
        !.ConfigMapName = setStringDefault(MLPipelineUIConfigMapPrefix \o d.Name, @),
        !.Resources = setResourcesDefault(MlPipelineUIResourceRequirements, @)]

\* SetupMLMD fails when v2 is asked for with neither engine driver in use.
MLMDIllegalEngineDriver(d, mlmd) ==
    /\ mlmd # Nil
    /\ UsingV2Pipelines(d)
    /\ ~UsingArgoEngineDriver(d)
    /\ ~UsingTektonEngineDriver(d)

\* SetupMLMD, the block it leaves in p.MLMD when it does not fail.
SetupMLMD(d, mlmd) ==
    IF mlmd = Nil THEN Nil
    ELSE
      LET v2argo == UsingV2Pipelines(d) /\ UsingArgoEngineDriver(d)
          v2tekton == UsingV2Pipelines(d) /\ ~UsingArgoEngineDriver(d)
                      /\ UsingTektonEngineDriver(d)
          EnvoyPath == IF v2argo THEN MlmdEnvoyImagePathV2Argo
                       ELSE IF v2tekton THEN MlmdEnvoyImagePathV2Tekton
                       ELSE MlmdEnvoyImagePath
          GRPCPath == IF v2argo THEN MlmdGRPCImagePathV2Argo
                      ELSE IF v2tekton THEN MlmdGRPCImagePathV2Tekton
                      ELSE MlmdGRPCImagePath
          WriterPath == IF v2argo THEN MlmdWriterImagePathV2Argo
                        ELSE IF v2tekton THEN MlmdWriterImagePathV2Tekton
                        ELSE MlmdWriterImagePath
          m == mlmd[1]
          envoy0 == IF m.Envoy = Nil
                    THEN [Resources |-> Nil,
                          Image |-> GetStringConfigWithDefault(EnvoyPath, DefaultImageValue)]
                    ELSE m.Envoy[1]
          grpc0 == IF m.GRPC = Nil
                   THEN [Resources |-> Nil, Port |-> "",
                         Image |-> GetStringConfigWithDefault(GRPCPath, DefaultImageValue)]
                   ELSE m.GRPC[1]
          writer0 == IF m.Writer = Nil
                     THEN [Resources |-> Nil,
                           Image |-> GetStringConfigWithDefault(WriterPath, DefaultImageValue)]
                     ELSE m.Writer[1]
      IN  Some([m EXCEPT
            !.Envoy = Some([envoy0 EXCEPT
                !.Image = setStringDefault(
                    GetStringConfigWithDefault(EnvoyPath, DefaultImageValue), @),
                !.Resources = setResourcesDefault(MlmdEnvoyResourceRequirements, @)]),
            !.GRPC = Some([grpc0 EXCEPT
                !.Image = setStringDefault(
                    GetStringConfigWithDefault(GRPCPath, DefaultImageValue), @),
                !.Resources = setResourcesDefault(MlmdGRPCResourceRequirements, @),
                !.Port = setStringDefault(MlmdGrpcPort, @)]),
            !.Writer = Some([writer0 EXCEPT
                !.Image = setStringDefault(
                    GetStringConfigWithDefault(WriterPath, DefaultImageValue), @),
                !.Resources = setResourcesDefault(MlmdWriterResourceRequirements, @)])])

\* type DBConnection, zero value.
EmptyDBConnection ==
    [Host |-> "", Port |-> "", Username |-> "", DBName |-> "",
     CredentialsSecret |-> Nil, Password |-> <<>>]

\* type ObjectStorageConnection, zero value.
EmptyObjectStorageConnection ==
    [Bucket |-> "", CredentialsSecret |-> Nil, Host |-> "", Port |-> "", Scheme |-> "",
     Secure |-> Nil, Endpoint |-> "", AccessKeyID |-> <<>>, SecretAccessKey |-> <<>>]

\* type DSPAParams, zero value.
EmptyParams ==
    [Name |-> "", Namespace |-> "", DSPVersion |-> "", APIServer |-> Nil,
     APIServerServiceName |-> "", OAuthProxy |-> "", ScheduledWorkflow |-> Nil,
     PersistenceAgent |-> Nil, MlPipelineUI |-> Nil, MariaDB |-> Nil, Minio |-> Nil,
     MLMD |-> Nil, DBConnection |-> EmptyDBConnection,
     ObjectStorageConnection |-> EmptyObjectStorageConnection]

\* ExtractParams dereferences dsp.Spec.Database and dsp.Spec.ObjectStorage
\* (lines 460-461) without a nil check: a nil block is a nil pointer dereference.
ExtractParamsPanics(d) ==
    d.Spec.Database = Nil \/ d.Spec.ObjectStorage = Nil

\* ExtractParams were it not to ask for the image of the UI.
MlPipelineUIImageNotChecked(d) == FALSE

\* ExtractParams returns this error before SetupMLMD (lines 539-542).
MlPipelineUIImageMissing(d) ==
    d.Spec.MlPipelineUI # Nil /\ d.Spec.MlPipelineUI[1].Image = ""

\* ExtractParams up to the call of SetupDBParams (lines 451-553), for a document
\* on which it does not panic: the error it returns ("" for none) and the
\* record as it then stands.
ExtractParamsHead(d) ==
    LET copied ==
            [EmptyParams EXCEPT
                !.Name = d.Name,
                !.Namespace = d.Namespace,
                !.DSPVersion = d.Spec.DSPVersion,
                !.APIServer = d.Spec.APIServer,
                !.APIServerServiceName = DSPServicePrefix \o "-" \o d.Name,
                !.ScheduledWorkflow = d.Spec.ScheduledWorkflow,
                !.PersistenceAgent = d.Spec.PersistenceAgent,
                !.MlPipelineUI = d.Spec.MlPipelineUI,
                !.MariaDB = d.Spec.Database[1].MariaDB,
                !.Minio = d.Spec.ObjectStorage[1].Minio,
                !.OAuthProxy = GetStringConfigWithDefault(OAuthProxyImagePath, DefaultImageValue),
                !.MLMD = d.Spec.MLMD]
        defaulted ==
            [copied EXCEPT
                !.APIServer = IF @ = Nil THEN Nil ELSE Some(ResolveAPIServer(d, @[1])),
                !.PersistenceAgent =
                    IF @ = Nil THEN Nil ELSE Some(ResolvePersistenceAgent(d, @[1])),
                !.ScheduledWorkflow =
                    IF @ = Nil THEN Nil ELSE Some(ResolveScheduledWorkflow(d, @[1]))]
    IN  IF MlPipelineUIImageMissing(d)
        THEN [err |-> "mlPipelineUI specified, but no image provided in the DSPA CR Spec", p |-> defaulted]
        ELSE
          LET withUI ==
                [defaulted EXCEPT
                    !.MlPipelineUI = IF @ = Nil THEN Nil ELSE Some(ResolveMlPipelineUI(d, @[1]))]
          IN  IF MLMDIllegalEngineDriver(d, withUI.MLMD)
              THEN [err |-> "Illegal Engine Driver (" \o d.Spec.EngineDriver
                                \o ") specified, cannot continue.",
                    p |-> withUI]
              ELSE [err |-> "", p |-> [withUI EXCEPT !.MLMD = SetupMLMD(d, @)]]

\* Data[key] of a secret: the empty byte string when the key is not in the map.
Lookup(data, key) ==
    IF \E kv \in data : kv[1] = key
    THEN (CHOOSE kv \in data : kv[1] = key)[2]
    ELSE <<>>

\* client.Get of a secret (lines 213, 352): the read fails, or finds nothing,
\* or finds the secret.
GetSecret(st, name, getFails) ==
    IF getFails THEN "failed"
    ELSE IF st[name] = Nil THEN "notfound"
    ELSE "found"

\* SetupDBParams, the MariaDB block it leaves in p.MariaDB (lines 159-176).
ResolveMariaDB(mariadb) ==
    LET m == IF mariadb = Nil
             THEN [Deploy |-> TRUE,
                   Image |-> GetStringConfigWithDefault(MariaDBImagePath, DefaultImageValue),
                   Resources |-> Some(MariaDBResourceRequirements),
                   Username |-> MariaDBUser, DBName |-> MariaDBName,
                   PVCSize |-> MariaDBNamePVCSize, PasswordSecret |-> Nil]
             ELSE mariadb[1]
    IN  [m EXCEPT
            !.Image = IF @ = ""
                      THEN GetStringConfigWithDefault(MariaDBImagePath, DefaultImageValue)
                      ELSE @,
            !.Username = setStringDefault(MariaDBUser, @),
            !.DBName = setStringDefault(MariaDBName, @),
            !.Resources = setResourcesDefault(MariaDBResourceRequirements, @)]

\* SetupDBParams, the operator's own secret recorded in the record (lines 144-147).
DBCredentialsSecret(p) ==
    [Name |-> DBSecretNamePrefix \o p.Name, Key |-> DBSecretKey]

\* customCreds were the MariaDB block's override to win over the external
\* descriptor's secret.
DBCustomCredsManagedFirst(d, mariadb) ==
    IF d.Spec.Database # Nil /\ d.Spec.Database[1].MariaDB # Nil
       /\ d.Spec.Database[1].MariaDB[1].PasswordSecret # Nil
    THEN d.Spec.Database[1].MariaDB[1].PasswordSecret
    ELSE IF UsingExternalDB(d)
    THEN d.Spec.Database[1].ExternalDB[1].PasswordSecret
    ELSE mariadb.PasswordSecret

\* SetupDBParams, customCreds: the external descriptor's secret in the external
\* branch, the MariaDB block's override in the managed one (lines 155, 186-188).
DBCustomCreds(d, mariadb) ==
    IF UsingExternalDB(d)
    THEN d.Spec.Database[1].ExternalDB[1].PasswordSecret
    ELSE mariadb.PasswordSecret

\* The secret fetched were it always the operator's own.
DBSecretToFetchFallback(customCreds, credentialsSecret) == credentialsSecret

\* SetupDBParams, the secret it fetches (lines 195-202).
DBSecretToFetch(customCreds, credentialsSecret) ==
    IF customCreds # Nil THEN customCreds[1] ELSE credentialsSecret

\* createNewSecret were a password generated whenever the read did not fail.
DBCreateNewSecretAlways(got, customCredentialsSpecified) ==
    got # "failed" /\ ~customCredentialsSpecified

\* createNewSecret were a password generated on any failure of the read.
DBCreateNewSecretOnAnyError(got, customCredentialsSpecified) ==
    got # "found" /\ ~customCredentialsSpecified

\* SetupDBParams, createNewSecret (lines 214-219).
DBCreateNewSecret(got, customCredentialsSpecified) ==
    got = "notfound" /\ ~customCredentialsSpecified

\* The password taken from the fetched secret were it not encoded.
DBPasswordFromSecretRaw(data, credsPasswordKey) == Lookup(data, credsPasswordKey)

\* SetupDBParams, the password taken from the fetched secret (line 234).
DBPasswordFromSecret(data, credsPasswordKey) ==
    Base64Encode(Lookup(data, credsPasswordKey))

\* The check of the password were it left out.
DBPasswordNeverMissing(password) == FALSE

\* SetupDBParams, the check of the password it took from the secret (line 236).
DBPasswordMissing(password) == password = <<>>

\* SetupDBParams (lines 137-241) on record p against the secrets st, the read
\* failing or not, the clock seeding passwordGen being seed: the record it
\* leaves, the error it returns ("" for nil), createNewSecret, and its read.
SetupDBParamsResult(d, p, st, getFails, seed) ==
    LET usingExternalDB == UsingExternalDB(d)
        credentialsSecret == DBCredentialsSecret(p)
        mariadb == ResolveMariaDB(p.MariaDB)
        p1 == IF usingExternalDB
              THEN LET ext == d.Spec.Database[1].ExternalDB[1]
                   IN  [p EXCEPT
                          !.DBConnection.CredentialsSecret = Some(credentialsSecret),
                          !.DBConnection.Host = ext.Host,
                          !.DBConnection.Port = ext.Port,
                          !.DBConnection.Username = ext.Username,
                          !.DBConnection.DBName = ext.DBName]
              ELSE [p EXCEPT
                      !.MariaDB = Some(mariadb),
                      !.DBConnection.CredentialsSecret = Some(credentialsSecret),
                      !.DBConnection.Host =
                          MariaDBHostPrefix \o "-" \o p.Name \o "." \o p.Namespace
                              \o ".svc.cluster.local",
                      !.DBConnection.Port = MariaDBHostPort,
                      !.DBConnection.Username = mariadb.Username,
                      !.DBConnection.DBName = mariadb.DBName]
        customCreds == DBCustomCreds(d, mariadb)
        customCredentialsSpecified == customCreds # Nil
        creds == DBSecretToFetch(customCreds, credentialsSecret)
        got == GetSecret(st, creds.Name, getFails)
        read == [cred |-> "db", Name |-> creds.Name, got |-> got,
                 custom |-> customCredentialsSpecified]
    IN  IF DBCreateNewSecret(got, customCredentialsSpecified)
        THEN [p |-> [p1 EXCEPT !.DBConnection.Password =
                                    GeneratedText[12, seed]],
              err |-> "", createNewSecret |-> TRUE, read |-> read]
        ELSE IF got = "notfound"
        THEN [p |-> p1, err |-> "DB secret was specified in CR but does not exist",
              createNewSecret |-> FALSE, read |-> read]
        ELSE IF got = "failed"
        THEN [p |-> p1, err |-> "Unable to fetch DB secret",
              createNewSecret |-> FALSE, read |-> read]
        ELSE
          LET password == DBPasswordFromSecret(st[creds.Name][1], creds.Key)
              p2 == [p1 EXCEPT !.DBConnection.Password = password]
          IN  [p |-> p2,
               err |-> IF DBPasswordMissing(password)
                       THEN "DB Password was not successfully retrieved" ELSE "",
               createNewSecret |-> FALSE, read |-> read]

\* SetupObjectParams, the operator's own secret recorded in the record
\* (lines 253-257).
ObjectStorageCredentialsSecret ==
    [SecretName |-> ObjectStorageSecretName, AccessKey |-> ObjectStorageAccessKey,
     SecretKey |-> ObjectStorageSecretKey]

\* SetupObjectParams, Secure in the external branch (lines 265-273).
ExternalStorageSecure(ext) ==
    IF ext.Secure = Nil
    THEN IF ext.Scheme = "https" THEN Some(TRUE) ELSE Some(FALSE)
    ELSE ext.Secure

\* SetupObjectParams, Secure of the external branch in the file's second
\* revision (line 805): the document's optional value as it is.
ExternalStorageSecureRaw(ext) == ext.Secure

\* The two revisions of the assignment the file holds.
SecureRevisions == {"inferred", "raw"}

\* Secure of the external branch under a revision.
ExternalStorageSecureOf(revision, ext) ==
    IF revision = "inferred" THEN ExternalStorageSecure(ext)
    ELSE ExternalStorageSecureRaw(ext)

\* The checks of the managed branch were the image not asked for.
MinioCheckNoImage(minio) ==
    IF minio = Nil
    THEN "either [spec.objectStorage.minio] or [spec.objectStorage.externalStorage] "
         \o "need to be specified in DSPA spec"
    ELSE ""

\* SetupObjectParams, the checks of the managed branch (lines 279-289): the
\* error returned before anything is fetched, "" for none.
MinioCheck(minio) ==
    IF minio = Nil
    THEN "either [spec.objectStorage.minio] or [spec.objectStorage.externalStorage] "
         \o "need to be specified in DSPA spec"
    ELSE IF minio[1].Image = ""
    THEN "minio specified, but no image provided in the DSPA CR Spec"
    ELSE ""

\* SetupObjectParams, the Minio block it leaves in p.Minio (lines 291-294).
ResolveMinio(d, minio) ==
    [minio EXCEPT
        !.Image = d.Spec.ObjectStorage[1].Minio[1].Image,
        !.Bucket = setStringDefault(MinioDefaultBucket, @),
        !.Resources = setResourcesDefault(MinioResourceRequirements, @)]

\* SetupObjectParams, customCreds: the external descriptor's secret in the
\* external branch, the Minio block's override in the managed one
\* (lines 277, 306-308).
ObjectCustomCreds(d, minio) ==
    IF UsingExternalStorage(d)
    THEN d.Spec.ObjectStorage[1].ExternalStorage[1].S3CredentialSecret
    ELSE minio[1].S3CredentialSecret

\* SetupObjectParams, the secret it fetches (lines 332-341).
ObjectSecretToFetch(customCreds, credentialsSecret) ==
    IF customCreds # Nil THEN customCreds[1] ELSE credentialsSecret

\* The endpoint were the port segment always written.
ObjectStorageEndpointAlwaysPort(scheme, host, port) ==
    scheme \o "://" \o host \o ":" \o port

\* SetupObjectParams, the endpoint (lines 311-325).
ObjectStorageEndpoint(scheme, host, port) ==
    IF port # "" THEN scheme \o "://" \o host \o ":" \o port
    ELSE scheme \o "://" \o host

\* createNewSecret were credentials generated under any identity not found.
ObjectCreateNewSecretAnyOwner(got, customCredentialsSpecified) == got = "notfound"

\* SetupObjectParams, createNewSecret (lines 353-359).
ObjectCreateNewSecret(got, customCredentialsSpecified) ==
    got = "notfound" /\ ~customCredentialsSpecified

\* SetupObjectParams, a credential taken from the fetched secret (lines 375-376).
ObjectKeyFromSecret(data, key) ==
    Base64Encode(Lookup(data, key))

\* The check of the credentials were it to look at the access key only.
ObjectCredentialsMissingAccessKeyOnly(accessKeyID, secretAccessKey) ==
    accessKeyID = <<>>

\* SetupObjectParams, the check of the credentials it took from the secret
\* (line 378).
ObjectCredentialsMissing(accessKeyID, secretAccessKey) ==
    accessKeyID = <<>> \/ secretAccessKey = <<>>

\* SetupObjectParams (lines 246-385) on record p against the secrets st, the
\* read failing or not, the clock seeding the two passwordGen calls being
\* seed1 and seed2: the record it leaves, the error it returns ("" for nil),
\* createNewSecret, and its read (Nil when it returns before the fetch).
SetupObjectParamsResult(d, p, st, getFails, seed1, seed2, revision) ==
    LET usingExternalObjectStorage == UsingExternalStorage(d)
        credentialsSecret == ObjectStorageCredentialsSecret
        p0 == [p EXCEPT !.ObjectStorageConnection.CredentialsSecret = Some(credentialsSecret)]
        check == IF usingExternalObjectStorage THEN "" ELSE MinioCheck(p.Minio)
    IN  IF check # ""
        THEN [p |-> p0, err |-> check, createNewSecret |-> FALSE, read |-> Nil]
        ELSE
          LET minio == IF usingExternalObjectStorage THEN p.Minio
                       ELSE Some(ResolveMinio(d, p.Minio[1]))
              p1 == IF usingExternalObjectStorage
                    THEN LET ext == d.Spec.ObjectStorage[1].ExternalStorage[1]
                         IN  [p0 EXCEPT
                                !.ObjectStorageConnection.Bucket = ext.Bucket,
                                !.ObjectStorageConnection.Host = ext.Host,
                                !.ObjectStorageConnection.Scheme = ext.Scheme,
                                !.ObjectStorageConnection.Secure =
                                    ExternalStorageSecureOf(revision, ext),
                                !.ObjectStorageConnection.Port = ext.Port]
                    ELSE [p0 EXCEPT
                            !.Minio = minio,
                            !.ObjectStorageConnection.Bucket = MinioDefaultBucket,
                            !.ObjectStorageConnection.Host =
                                MinioHostPrefix \o "-" \o p.Name \o "." \o p.Namespace
                                    \o ".svc.cluster.local",
                            !.ObjectStorageConnection.Port = MinioPort,
                            !.ObjectStorageConnection.Scheme = MinioScheme,
                            !.ObjectStorageConnection.Secure = Some(FALSE)]
              p2 == [p1 EXCEPT !.ObjectStorageConnection.Endpoint =
                        ObjectStorageEndpoint(p1.ObjectStorageConnection.Scheme,
                                              p1.ObjectStorageConnection.Host,
                                              p1.ObjectStorageConnection.Port)]
              customCreds == ObjectCustomCreds(d, minio)
              customCredentialsSpecified == customCreds # Nil
              creds == ObjectSecretToFetch(customCreds, credentialsSecret)
              got == GetSecret(st, creds.SecretName, getFails)
              read == Some([cred |-> "storage", Name |-> creds.SecretName, got |-> got,
                            custom |-> customCredentialsSpecified])
          IN  IF ObjectCreateNewSecret(got, customCredentialsSpecified)
              THEN [p |-> [p2 EXCEPT
                             !.ObjectStorageConnection.AccessKeyID =
                                 GeneratedText[16, seed1],
                             !.ObjectStorageConnection.SecretAccessKey =
                                 GeneratedText[24, seed2]],
                    err |-> "", createNewSecret |-> TRUE, read |-> read]
              ELSE IF got = "notfound"
              THEN [p |-> p2, err |-> "Storage secret was specified in CR but does not exist",
                    createNewSecret |-> FALSE, read |-> read]
              ELSE IF got = "failed"
              THEN [p |-> p2, err |-> "Unable to fetch Storage secret",
                    createNewSecret |-> FALSE, read |-> read]
              ELSE
                LET data == st[creds.SecretName][1]
                    p3 == [p2 EXCEPT
                             !.ObjectStorageConnection.AccessKeyID =
                                 ObjectKeyFromSecret(data, creds.AccessKey),
                             !.ObjectStorageConnection.SecretAccessKey =
                                 ObjectKeyFromSecret(data, creds.SecretKey)]
                IN  [p |-> p3,
                     err |-> IF ObjectCredentialsMissing(
                                    p3.ObjectStorageConnection.AccessKeyID,
                                    p3.ObjectStorageConnection.SecretAccessKey)
                             THEN "Object Storage Password was not successfully retrieved"
                             ELSE "",
                     createNewSecret |-> FALSE, read |-> read]

(***************************************************************************)
(* The cluster and the reconcile workers.                                  *)
(***************************************************************************)
\* The registry the process starts with: every image path of the three
\* families is set but one of each family, none of them a required field
\* (defaults.go:123-132).
Registry ==
    [path \in {APIServerImagePath, APIServerArtifactImagePath, PersistenceAgentImagePath,
               ScheduledWorkflowImagePath, APIServerCacheImagePath,
               APIServerMoveResultsImagePath, MariaDBImagePath, OAuthProxyImagePath,
               MlmdEnvoyImagePath, MlmdWriterImagePath,
               APIServerImagePathV2Argo, APIServerArtifactImagePathV2Argo,
               APIServerMoveResultsImagePathV2Argo, PersistenceAgentImagePathV2Argo,
               ScheduledWorkflowImagePathV2Argo, MlmdEnvoyImagePathV2Argo,
               MlmdGRPCImagePathV2Argo, MlmdWriterImagePathV2Argo,
               APIServerImagePathV2Tekton, APIServerArtifactImagePathV2Tekton,
               APIServerCacheImagePathV2Tekton, APIServerMoveResultsImagePathV2Tekton,
               PersistenceAgentImagePathV2Tekton, ScheduledWorkflowImagePathV2Tekton,
               MlmdEnvoyImagePathV2Tekton, MlmdGRPCImagePathV2Tekton}
        |-> "registry/" \o path]

\* The secrets of the namespace that a pass may name.
SecretNames ==
    { DBSecretNamePrefix \o ResourceName, DBSecretNamePrefix \o OtherResourceName,
      ObjectStorageSecretName,
      ExtDBSecret.Name, MariaDBSecret.Name, ExtS3Secret.SecretName, MinioS3Secret.SecretName }

\* The secret names a document refers to, with the operator's own two.
ReferencedSecrets(d) ==
    { DBSecretNamePrefix \o d.Name, ObjectStorageSecretName }
    \cup (IF d.Spec.Database # Nil /\ d.Spec.Database[1].ExternalDB # Nil
             /\ d.Spec.Database[1].ExternalDB[1].PasswordSecret # Nil
          THEN {ExtDBSecret.Name} ELSE {})
    \cup (IF d.Spec.Database # Nil /\ d.Spec.Database[1].MariaDB # Nil
             /\ d.Spec.Database[1].MariaDB[1].PasswordSecret # Nil
          THEN {MariaDBSecret.Name} ELSE {})
    \cup (IF d.Spec.ObjectStorage # Nil /\ d.Spec.ObjectStorage[1].ExternalStorage # Nil
          THEN {ExtS3Secret.SecretName} ELSE {})
    \cup (IF d.Spec.ObjectStorage # Nil /\ d.Spec.ObjectStorage[1].Minio # Nil
             /\ d.Spec.ObjectStorage[1].Minio[1].S3CredentialSecret # Nil
          THEN {MinioS3Secret.SecretName} ELSE {})

\* The keys under which a secret of that name holds its primary and its
\* secondary value (no secondary value for a database secret).
SecretKeys(name) ==
    IF name \in {DBSecretNamePrefix \o ResourceName, DBSecretNamePrefix \o OtherResourceName}
    THEN << DBSecretKey >>
    ELSE IF name = ExtDBSecret.Name THEN << ExtDBSecret.Key >>
    ELSE IF name = MariaDBSecret.Name THEN << MariaDBSecret.Key >>
    ELSE IF name = ObjectStorageSecretName
         THEN << ObjectStorageAccessKey, ObjectStorageSecretKey >>
    ELSE IF name = ExtS3Secret.SecretName THEN << ExtS3Secret.AccessKey, ExtS3Secret.SecretKey >>
    ELSE << MinioS3Secret.AccessKey, MinioS3Secret.SecretKey >>

\* A usable secret someone put on the cluster: "hunter2", or "AKIA" / "s3cr3t".
GoodData(name) ==
    IF Len(SecretKeys(name)) = 1
    THEN { << SecretKeys(name)[1], << 104, 117, 110, 116, 101, 114, 50 >> >> }
    ELSE { << SecretKeys(name)[1], << 65, 75, 73, 65 >> >>,
           << SecretKeys(name)[2], << 115, 51, 99, 114, 51, 116 >> >> }

\* An unusable one: its primary value is empty.
BadData(name) ==
    IF Len(SecretKeys(name)) = 1
    THEN { << SecretKeys(name)[1], <<>> >> }
    ELSE { << SecretKeys(name)[2], << 115, 51, 99, 114, 51, 116 >> >> }

\* A secret of two keys with its access key but not its secret key.
HalfData(name) == { << SecretKeys(name)[1], << 65, 75, 73, 65 >> >> }

\* What the cluster may hold under a name when a pass starts: nothing under a
\* name the document does not refer to, nothing unusable under the
\* operator's own name when the document names a secret of its own beside it,
\* and the operator's secrets of an earlier pass when the document varies the
\* component blocks.
SecretOpts(d, n) ==
    IF n \notin ReferencedSecrets(d) THEN {Nil}
    ELSE IF d.Spec.APIServer # DefaultComponents.APIServer
            \/ d.Spec.DSPVersion # DefaultComponents.DSPVersion
            \/ d.Spec.EngineDriver # DefaultComponents.EngineDriver
            \/ d.Spec.MLMD # DefaultComponents.MLMD
            \/ d.Spec.MlPipelineUI # DefaultComponents.MlPipelineUI
    THEN {Some(GoodData(n))}
    ELSE IF \/ /\ n = DBSecretNamePrefix \o d.Name
               /\ ReferencedSecrets(d) \cap {ExtDBSecret.Name, MariaDBSecret.Name} # {}
            \/ /\ n = ObjectStorageSecretName
               /\ ReferencedSecrets(d) \cap {ExtS3Secret.SecretName, MinioS3Secret.SecretName} # {}
    THEN {Nil, Some(GoodData(n))}
    ELSE IF n = ObjectStorageSecretName
    THEN {Nil, Some(GoodData(n)), Some(BadData(n)), Some(HalfData(n))}
    ELSE {Nil, Some(GoodData(n)), Some(BadData(n))}

\* The clusters a pass may start against.
InitStores(d) ==
    { [n \in SecretNames |->
          IF n = DBSecretNamePrefix \o ResourceName THEN a
          ELSE IF n = DBSecretNamePrefix \o OtherResourceName THEN Nil
          ELSE IF n = ObjectStorageSecretName THEN b
          ELSE IF n = ExtDBSecret.Name THEN c
          ELSE IF n = MariaDBSecret.Name THEN e
          ELSE IF n = ExtS3Secret.SecretName THEN f
          ELSE g] :
        a \in SecretOpts(d, DBSecretNamePrefix \o ResourceName),
        b \in SecretOpts(d, ObjectStorageSecretName),
        c \in SecretOpts(d, ExtDBSecret.Name),
        e \in SecretOpts(d, MariaDBSecret.Name),
        f \in SecretOpts(d, ExtS3Secret.SecretName),
        g \in SecretOpts(d, MinioS3Secret.SecretName) }

\* ReconcileMLMD before it is called.
IdleMLMD == [pc |-> "idle", attempted |-> << >>, failedAt |-> 0, err |-> ""]

\* A worker that is not in a pass.
IdlePass ==
    [pc |-> "idle", p |-> EmptyParams, err |-> "", reads |-> <<>>,
     createNewDBSecret |-> FALSE, createNewStorageSecret |-> FALSE,
     dbCreate |-> "none", storageCreate |-> "none", after |-> FALSE]

Init ==
    /\ viper = Registry
    /\ \E d \in DSPAs :
          /\ dsp = [i \in Procs |-> d]
          /\ store \in InitStores(d)
    /\ pass = [i \in Procs |-> IdlePass]
    /\ first = Nil
    /\ clock = 1
    /\ mlmdLoop = IdleMLMD

\* Where the caller goes once the pass has returned nil: to the creation of the
\* secrets the pass generated material for, the database's first.
AfterResolve(createDB, createStorage) ==
    IF createDB THEN "createDBSecret"
    ELSE IF createStorage THEN "createStorageSecret"
    ELSE "returned"

\* ExtractParams were it to take the API server block of the document by its
\* pointer.
CopiedBlocksButAPIServer ==
    {"ScheduledWorkflow", "PersistenceAgent", "MlPipelineUI", "MariaDB", "Minio", "MLMD"}

\* ExtractParams, the blocks of the document it takes by DeepCopy
\* (lines 455-463): the record shares no block with the document.
CopiedBlocks ==
    {"APIServer", "ScheduledWorkflow", "PersistenceAgent", "MlPipelineUI", "MariaDB", "Minio",
     "MLMD"}

\* The document once the resolver has written the record p: a block the
\* record shares with the document takes what was written through the
\* pointer, a copied block stays. A block the document lacks is never shared.
DocumentAfter(d, p) ==
    LET shared(name, own, mine) ==
            IF name \in CopiedBlocks \/ own = Nil \/ mine = Nil THEN own ELSE mine
    IN  [d EXCEPT
            !.Spec.APIServer = shared("APIServer", @, p.APIServer),
            !.Spec.ScheduledWorkflow = shared("ScheduledWorkflow", @, p.ScheduledWorkflow),
            !.Spec.PersistenceAgent = shared("PersistenceAgent", @, p.PersistenceAgent),
            !.Spec.MlPipelineUI = shared("MlPipelineUI", @, p.MlPipelineUI),
            !.Spec.MLMD = shared("MLMD", @, p.MLMD),
            !.Spec.Database =
                IF @ = Nil THEN @
                ELSE Some([@[1] EXCEPT !.MariaDB = shared("MariaDB", @, p.MariaDB)]),
            !.Spec.ObjectStorage =
                IF @ = Nil THEN @
                ELSE Some([@[1] EXCEPT !.Minio = shared("Minio", @, p.Minio)])]

\* ExtractParams up to its call of SetupDBParams.
ExtractParams(i) ==
    /\ pass[i].pc = "idle"
    /\ pass' = [pass EXCEPT ![i] =
          IF ExtractParamsPanics(dsp[i])
          THEN [@ EXCEPT !.pc = "aborted", !.after = first # Nil]
          ELSE LET r == ExtractParamsHead(dsp[i])
               IN  [@ EXCEPT !.pc = IF r.err = "" THEN "SetupDBParams" ELSE "returned",
                             !.p = r.p, !.err = r.err, !.after = first # Nil]]
    /\ dsp' = [dsp EXCEPT ![i] =
          IF ExtractParamsPanics(dsp[i]) THEN @
          ELSE DocumentAfter(@, ExtractParamsHead(dsp[i]).p)]
    /\ UNCHANGED << mlmdLoop, viper, store, first, clock >>

\* ExtractParams, its call of SetupDBParams (lines 555-558).
SetupDBParams(i) ==
    /\ pass[i].pc = "SetupDBParams"
    /\ \E getFails \in BOOLEAN :
          LET r == SetupDBParamsResult(dsp[i], pass[i].p, store, getFails, clock)
          IN  /\ pass' = [pass EXCEPT ![i] =
                    [@ EXCEPT !.pc = IF r.err = "" THEN "SetupObjectParams" ELSE "returned",
                              !.p = r.p, !.err = r.err,
                              !.reads = Append(@, r.read),
                              !.createNewDBSecret = r.createNewSecret]]
              /\ dsp' = [dsp EXCEPT ![i] = DocumentAfter(@, r.p)]
    /\ UNCHANGED << mlmdLoop, viper, store, first, clock >>

\* ExtractParams, its call of SetupObjectParams and its return (lines 560-565).
SetupObjectParams(i) ==
    /\ pass[i].pc = "SetupObjectParams"
    /\ \E getFails \in BOOLEAN, seed2 \in clock..MaxSeed, revision \in SecureRevisions :
          LET r == SetupObjectParamsResult(dsp[i], pass[i].p, store, getFails, clock, seed2,
                                           revision)
          IN  /\ pass' = [pass EXCEPT ![i] =
                    [@ EXCEPT !.pc = IF r.err = ""
                                     THEN AfterResolve(pass[i].createNewDBSecret,
                                                       r.createNewSecret)
                                     ELSE "returned",
                              !.p = r.p, !.err = r.err,
                              !.reads = @ \o r.read,
                              !.createNewStorageSecret = r.createNewSecret]]
              /\ clock' = seed2
              /\ dsp' = [dsp EXCEPT ![i] = DocumentAfter(@, r.p)]
    /\ UNCHANGED << mlmdLoop, viper, store, first >>

\* Time passes.
Tick ==
    /\ clock < MaxSeed
    /\ clock' = clock + 1
    /\ UNCHANGED << mlmdLoop, viper, store, dsp, pass, first >>

\* The store's create were it to replace a secret it holds.
CreateSecretOverwrite(st, name, data) ==
    [store |-> [st EXCEPT ![name] = Some(data)],
     outcome |-> IF st[name] = Nil THEN "created" ELSE "exists"]

\* The secret store's create(namespace, name, fields): ok, or AlreadyExists and
\* the store as it was.
CreateSecret(st, name, data) ==
    IF st[name] = Nil
    THEN [store |-> [st EXCEPT ![name] = Some(data)], outcome |-> "created"]
    ELSE [store |-> st, outcome |-> "exists"]

\* The caller persists the database secret the pass generated, under the
\* operator's own identity, from the base64 text of the record.
CreateDBSecret(i) ==
    /\ pass[i].pc = "createDBSecret"
    /\ LET c == pass[i].p.DBConnection
           r == CreateSecret(store, c.CredentialsSecret[1].Name,
                             { << c.CredentialsSecret[1].Key, Base64Decode(c.Password) >> })
       IN  /\ store' = r.store
           /\ pass' = [pass EXCEPT ![i] =
                 [@ EXCEPT !.pc = AfterResolve(FALSE, pass[i].createNewStorageSecret),
                           !.dbCreate = r.outcome]]
    /\ UNCHANGED << mlmdLoop, viper, dsp, first, clock >>

\* The caller persists the object-storage secret the pass generated.
CreateStorageSecret(i) ==
    /\ pass[i].pc = "createStorageSecret"
    /\ LET c == pass[i].p.ObjectStorageConnection
           r == CreateSecret(store, c.CredentialsSecret[1].SecretName,
                             { << c.CredentialsSecret[1].AccessKey, Base64Decode(c.AccessKeyID) >>,
                               << c.CredentialsSecret[1].SecretKey,
                                  Base64Decode(c.SecretAccessKey) >> })
       IN  /\ store' = r.store
           /\ pass' = [pass EXCEPT ![i] = [@ EXCEPT !.pc = "returned", !.storageCreate = r.outcome]]
    /\ UNCHANGED << mlmdLoop, viper, dsp, first, clock >>

\* The credentials a pass resolved.
Credentials(p) ==
    [Password |-> p.DBConnection.Password,
     AccessKeyID |-> p.ObjectStorageConnection.AccessKeyID,
     SecretAccessKey |-> p.ObjectStorageConnection.SecretAccessKey]

\* The pass succeeded and every secret it generated material for was created
\* from that material.
Persisted(ps) ==
    /\ ps.pc = "returned"
    /\ ps.err = ""
    /\ ps.createNewDBSecret => ps.dbCreate = "created"
    /\ ps.createNewStorageSecret => ps.storageCreate = "created"

\* The reconcile ends; the worker is free for the next one.
Return(i) ==
    /\ pass[i].pc = "returned"
    /\ pass' = [pass EXCEPT ![i] = IdlePass]
    /\ first' = IF first = Nil /\ Persisted(pass[i])
                THEN Some(Credentials(pass[i].p))
                ELSE first
    /\ UNCHANGED << mlmdLoop, viper, store, dsp, clock >>

Next ==
    \/ Tick
    \/ \E i \in Procs :
          \/ ExtractParams(i)
          \/ SetupDBParams(i)
          \/ SetupObjectParams(i)
          \/ CreateDBSecret(i)
          \/ CreateStorageSecret(i)
          \/ Return(i)

Spec == Init /\ [][Next]_vars

\* Two resources of one namespace, each resolved by its own worker, on a
\* cluster that holds no secret yet.
InitTwoResources ==
    /\ viper = Registry
    /\ dsp = [i \in Procs |->
                LET d == MakeDSPA(DefaultComponents, DefaultDatabase, DefaultObjectStorage)
                IN  IF i = "r1" THEN d ELSE [d EXCEPT !.Name = OtherResourceName]]
    /\ store = [n \in SecretNames |-> Nil]
    /\ pass = [i \in Procs |-> IdlePass]
    /\ first = Nil
    /\ clock = 1
    /\ mlmdLoop = IdleMLMD

SpecTwoResources == InitTwoResources /\ [][Next]_vars

\* var mlmdTemplates, beside ReconcileMLMD (lines 22-32).
mlmdTemplates ==
    << "ml-metadata/metadata-envoy.deployment.yaml.tmpl",
       "ml-metadata/metadata-envoy.service.yaml.tmpl",
       "ml-metadata/metadata-grpc.deployment.yaml.tmpl",
       "ml-metadata/metadata-grpc.service.yaml.tmpl",
       "ml-metadata/metadata-grpc.serviceaccount.yaml.tmpl",
       "ml-metadata/metadata-writer.deployment.yaml.tmpl",
       "ml-metadata/metadata-writer.role.yaml.tmpl",
       "ml-metadata/metadata-writer.rolebinding.yaml.tmpl",
       "ml-metadata/metadata-writer.serviceaccount.yaml.tmpl" >>

\* UsingMLMD (dspipeline_params.go, lines 658-663).
UsingMLMD(d) == IF d.Spec.MLMD # Nil THEN d.Spec.MLMD[1].Deploy ELSE FALSE

\* The loop of ReconcileMLMD were it to go on after an error of Apply.
ApplyErrorIgnored(err) == FALSE

\* ReconcileMLMD, the loop's `if err != nil { return err }` (lines 44-46).
ApplyErrorReturns(err) == err # ""

\* ReconcileMLMD is called on the document (lines 34-40): it enters the loop
\* when the metadata service is in use and returns nil at once otherwise.
ReconcileMLMD ==
    /\ mlmdLoop.pc = "idle"
    /\ mlmdLoop' = [mlmdLoop EXCEPT !.pc = IF UsingMLMD(dsp["r1"]) THEN "applying" ELSE "returned"]
    /\ UNCHANGED << viper, store, dsp, pass, first, clock >>

\* One turn of the loop (lines 42-47): the next template is handed to Apply,
\* which succeeds or fails; the loop returns the error, goes on, or is done.
ApplyTemplate ==
    /\ mlmdLoop.pc = "applying"
    /\ \E err \in {"", "apply failed"} :
          LET attempted == Append(mlmdLoop.attempted, mlmdTemplates[Len(mlmdLoop.attempted) + 1])
          IN  mlmdLoop' = [pc |-> IF ApplyErrorReturns(err)
                                     \/ Len(attempted) = Len(mlmdTemplates)
                                  THEN "returned" ELSE "applying",
                           attempted |-> attempted,
                           failedAt |-> IF err # "" /\ mlmdLoop.failedAt = 0
                                        THEN Len(attempted) ELSE mlmdLoop.failedAt,
                           err |-> IF ApplyErrorReturns(err) THEN err ELSE ""]
    /\ UNCHANGED << viper, store, dsp, pass, first, clock >>

\* ReconcileMLMD has returned; the next reconcile calls it anew.
ReconcileMLMDReturned ==
    /\ mlmdLoop.pc = "returned"
    /\ mlmdLoop' = IdleMLMD
    /\ UNCHANGED << viper, store, dsp, pass, first, clock >>

NextReconcileMLMD == ReconcileMLMD \/ ApplyTemplate \/ ReconcileMLMDReturned

\* The reconciles of the metadata service over every document, the resolver
\* left aside.
InitReconcileMLMD ==
    /\ viper = Registry
    /\ \E d \in DSPAs :
          /\ dsp = [i \in Procs |-> d]
          /\ store = [n \in SecretNames |-> Nil]
    /\ pass = [i \in Procs |-> IdlePass]
    /\ first = Nil
    /\ clock = 1
    /\ mlmdLoop = IdleMLMD

SpecReconcileMLMD == InitReconcileMLMD /\ [][NextReconcileMLMD]_vars

(***************************************************************************)
(* Properties of credential resolution.                                    *)
(***************************************************************************)
\* The pass of worker i has returned nil to its caller.
Succeeded(i) == pass[i].pc = "returned" /\ pass[i].err = ""

\* The passwords passwordGen can have produced, as reported in the record.
GeneratedPasswords == { GeneratedText[12, s] : s \in Seeds }

\* C1: a pass that runs after a first pass succeeded and had what it
\* generated persisted, on the same document, returns the database password and
\* the access key and secret key the first pass returned.
Idempotence ==
    \A i \in Procs :
        (first # Nil /\ pass[i].after /\ Succeeded(i))
            => Credentials(pass[i].p) = first[1]

\* A second pass has returned the password the first pass generated.
IdempotenceWitness ==
    \E i \in Procs :
        /\ first # Nil /\ pass[i].after /\ Succeeded(i)
        /\ first[1].Password \in GeneratedPasswords
        /\ pass[i].p.DBConnection.Password = first[1].Password
        /\ pass[i].reads[1].got = "found"

\* The createNewSecret flag of the credential a read belongs to.
ReportedNew(ps, r) ==
    IF r.cred = "db" THEN ps.createNewDBSecret ELSE ps.createNewStorageSecret

\* C2: no step changes or re-creates a secret the store holds, and a pass
\* that reads a secret the store holds reports no generated material for it.
NonDestructive ==
    [][ /\ \A n \in SecretNames : store[n] # Nil => store'[n] = store[n]
        /\ \A i \in Procs :
              Len(pass'[i].reads) > Len(pass[i].reads)
                  => LET r == pass'[i].reads[Len(pass'[i].reads)]
                     IN  store[r.Name] # Nil => ~ReportedNew(pass'[i], r) ]_vars

\* A pass has read both of the operator's secrets, which an earlier pass
\* created, and a creation has been attempted on an existing secret.
NonDestructiveWitness ==
    \E i, j \in Procs :
        /\ first # Nil /\ pass[i].after /\ Succeeded(i)
        /\ Len(pass[i].reads) = 2
        /\ \A k \in 1..2 : pass[i].reads[k].got = "found" /\ ~pass[i].reads[k].custom
        /\ pass[j].storageCreate = "exists"

\* C3: of two concurrent first-time resolutions of the operator's
\* object-storage credential that both attempt creation, the one that gets
\* AlreadyExists ends up reporting the pair the other one created.
ConcurrentCreationAgrees ==
    \A i, j \in Procs :
        ( /\ Succeeded(i) /\ Succeeded(j)
          /\ pass[i].storageCreate = "created"
          /\ pass[j].storageCreate = "exists" )
            => /\ pass[j].p.ObjectStorageConnection.AccessKeyID
                    = pass[i].p.ObjectStorageConnection.AccessKeyID
               /\ pass[j].p.ObjectStorageConnection.SecretAccessKey
                    = pass[i].p.ObjectStorageConnection.SecretAccessKey

\* The credential fields of the record that belong to a read's credential.
MaterialOf(ps, r) ==
    IF r.cred = "db" THEN << ps.p.DBConnection.Password >>
    ELSE << ps.p.ObjectStorageConnection.AccessKeyID,
            ps.p.ObjectStorageConnection.SecretAccessKey >>

\* C4: a pass whose effective identity is user-supplied and names no secret
\* of the store fails, generates nothing for it, and creates no secret.
UserOwnedMissingIsFatal ==
    \A i \in Procs : \A k \in 1..Len(pass[i].reads) :
        LET r == pass[i].reads[k]
        IN  (r.custom /\ store[r.Name] = Nil)
                => /\ pass[i].pc = "returned"
                   /\ pass[i].err # ""
                   /\ ~ReportedNew(pass[i], r)
                   /\ \A m \in 1..Len(MaterialOf(pass[i], r)) : MaterialOf(pass[i], r)[m] = <<>>
                   /\ pass[i].dbCreate = "none"
                   /\ pass[i].storageCreate = "none"

\* The spec's scenario 2: the external database's my-db-secret is missing.
UserOwnedMissingWitness ==
    \E i \in Procs :
        /\ UsingExternalDB(dsp[i])
        /\ Len(pass[i].reads) = 1
        /\ pass[i].reads[1].Name = "my-db-secret"
        /\ pass[i].reads[1].custom
        /\ pass[i].reads[1].got = "notfound"
        /\ pass[i].err # ""

\* C5: a pass on a document with no database block, against a store
\* without the operator's database secret, does not abort, and its database
\* stage yields the MariaDB service host, port 3306, username mlpipeline, a
\* generated 12-character password in base64, and reports the secret
\* ds-pipeline-db-<name> for creation.
NoDatabaseBlockDefaults ==
    \A i \in Procs :
        (dsp[i].Spec.Database = Nil /\ pass[i].pc # "idle")
            => /\ pass[i].pc # "aborted"
               /\ (Len(pass[i].reads) >= 1 /\ pass[i].reads[1].got = "notfound")
                     => /\ pass[i].p.DBConnection.Host
                             = "mariadb-" \o dsp[i].Name \o "." \o dsp[i].Namespace
                                 \o ".svc.cluster.local"
                        /\ pass[i].p.DBConnection.Port = "3306"
                        /\ pass[i].p.DBConnection.Username = "mlpipeline"
                        /\ Len(Base64Decode(pass[i].p.DBConnection.Password)) = 12
                        /\ pass[i].createNewDBSecret
                        /\ pass[i].p.DBConnection.CredentialsSecret[1].Name
                             = "ds-pipeline-db-" \o dsp[i].Name

\* C6: no pass aborts; every pass ends by returning to its caller.
NeverAborts == \A i \in Procs : pass[i].pc # "aborted"

\* The document supplies no usable object store: neither descriptor, or a
\* managed one without an image.
NoObjectStore(d) ==
    \/ d.Spec.ObjectStorage = Nil
    \/ /\ d.Spec.ObjectStorage[1].ExternalStorage = Nil
       /\ \/ d.Spec.ObjectStorage[1].Minio = Nil
          \/ d.Spec.ObjectStorage[1].Minio[1].Image = ""

\* C7: a pass on a document that supplies no usable object store ends with
\* an error and without object-storage credentials.
NoObjectStoreIsConfigurationError ==
    \A i \in Procs :
        (NoObjectStore(dsp[i]) /\ pass[i].pc \notin {"idle", "SetupDBParams", "SetupObjectParams"})
            => /\ pass[i].pc = "returned"
               /\ pass[i].err # ""
               /\ pass[i].p.ObjectStorageConnection.AccessKeyID = <<>>
               /\ pass[i].p.ObjectStorageConnection.SecretAccessKey = <<>>
               /\ ~pass[i].createNewStorageSecret

\* The document asks for managed object storage and leaves the image unset.
MinioImageUnset(d) ==
    /\ d.Spec.ObjectStorage # Nil
    /\ d.Spec.ObjectStorage[1].ExternalStorage = Nil
    /\ d.Spec.ObjectStorage[1].Minio # Nil
    /\ d.Spec.ObjectStorage[1].Minio[1].Image = ""

\* The error of the managed object store without an image.
MinioImageError == "minio specified, but no image provided in the DSPA CR Spec"

\* C8 as the spec states it: a pass on a document with managed object
\* storage and no image fails before it has read any secret.
MinioImageFailsBeforeAnyRead ==
    \A i \in Procs :
        (MinioImageUnset(dsp[i]) /\ pass[i].pc = "returned")
            => /\ pass[i].err # ""
               /\ pass[i].err = MinioImageError => pass[i].reads = <<>>

\* C8: a pass on a document with managed object storage and no image never
\* succeeds, never reads the object-storage secret and creates no secret; when
\* it fails on the missing image it has read the database secret and nothing
\* else.
MinioImageFailsAfterDBRead ==
    \A i \in Procs :
        (MinioImageUnset(dsp[i]) /\ pass[i].pc \notin {"idle", "aborted"})
            => /\ \A k \in 1..Len(pass[i].reads) : pass[i].reads[k].cred = "db"
               /\ pass[i].pc \in {"SetupDBParams", "SetupObjectParams", "returned"}
               /\ pass[i].pc = "returned" => pass[i].err # ""
               /\ pass[i].err = MinioImageError
                     => /\ Len(pass[i].reads) = 1
                        /\ pass[i].reads[1].got \in {"found", "notfound"}
               /\ pass[i].dbCreate = "none" /\ pass[i].storageCreate = "none"

\* A pass has failed on the missing image after its database stage found no
\* secret and generated a password.
MinioImageWitness ==
    \E i \in Procs :
        /\ MinioImageUnset(dsp[i])
        /\ pass[i].pc = "returned"
        /\ pass[i].err = MinioImageError
        /\ Len(pass[i].reads) = 1
        /\ pass[i].reads[1].got = "notfound"
        /\ pass[i].createNewDBSecret

\* The read of a pass that belongs to a credential, as a set.
ReadsOf(ps, cred) == { ps.reads[k] : k \in { m \in 1..Len(ps.reads) : ps.reads[m].cred = cred } }

\* C9: once a stage has fetched its secret on a document with an external
\* descriptor, the record's host and port are the external descriptor's, and
\* the secret fetched is the one the external descriptor names (the operator's
\* own when it names none), never the managed descriptor's override.
ExternalWins ==
    \A i \in Procs :
        /\ (dsp[i].Spec.Database # Nil /\ dsp[i].Spec.Database[1].ExternalDB # Nil)
              => \A r \in ReadsOf(pass[i], "db") :
                    LET ext == dsp[i].Spec.Database[1].ExternalDB[1]
                    IN  /\ pass[i].p.DBConnection.Host = ext.Host
                        /\ pass[i].p.DBConnection.Port = ext.Port
                        /\ r.Name = IF ext.PasswordSecret # Nil
                                    THEN ext.PasswordSecret[1].Name
                                    ELSE "ds-pipeline-db-" \o dsp[i].Name
        /\ (dsp[i].Spec.ObjectStorage # Nil /\ dsp[i].Spec.ObjectStorage[1].ExternalStorage # Nil)
              => \A r \in ReadsOf(pass[i], "storage") :
                    LET ext == dsp[i].Spec.ObjectStorage[1].ExternalStorage[1]
                    IN  /\ pass[i].p.ObjectStorageConnection.Host = ext.Host
                        /\ pass[i].p.ObjectStorageConnection.Port = ext.Port
                        /\ r.Name = IF ext.S3CredentialSecret # Nil
                                    THEN ext.S3CredentialSecret[1].SecretName
                                    ELSE "mlpipeline-minio-artifact"

\* A pass has fetched the external database's secret on a document whose
\* MariaDB block carries its own secret override.
ExternalWinsWitness ==
    \E i \in Procs :
        /\ dsp[i].Spec.Database # Nil
        /\ dsp[i].Spec.Database[1].ExternalDB # Nil
        /\ dsp[i].Spec.Database[1].MariaDB # Nil
        /\ dsp[i].Spec.Database[1].MariaDB[1].PasswordSecret # Nil
        /\ Len(pass[i].reads) >= 1
        /\ pass[i].reads[1].Name = "my-db-secret"
        /\ pass[i].p.DBConnection.Host = "db.example.com"

\* The custom credential descriptor of the database branch the document
\* makes the pass execute, Nil for none.
BranchDescriptor(d) ==
    IF d.Spec.Database[1].ExternalDB # Nil
    THEN d.Spec.Database[1].ExternalDB[1].PasswordSecret
    ELSE IF d.Spec.Database[1].MariaDB # Nil
    THEN d.Spec.Database[1].MariaDB[1].PasswordSecret
    ELSE Nil

\* C10: once the database stage has fetched its secret, the record holds
\* the operator's secret ds-pipeline-db-<name> / password in either branch, and
\* the secret fetched is the executed branch's custom descriptor when there is
\* one, the operator's otherwise.
FallbackRecordedCustomRead ==
    \A i \in Procs : \A r \in ReadsOf(pass[i], "db") :
        /\ pass[i].p.DBConnection.CredentialsSecret
              = Some([Name |-> "ds-pipeline-db-" \o dsp[i].Name, Key |-> "password"])
        /\ r.Name = IF BranchDescriptor(dsp[i]) # Nil
                    THEN BranchDescriptor(dsp[i])[1].Name
                    ELSE "ds-pipeline-db-" \o dsp[i].Name
        /\ r.custom <=> BranchDescriptor(dsp[i]) # Nil

\* A pass in the external branch has fetched the operator's secret, the
\* external descriptor naming none while the MariaDB block carries an override.
FallbackRecordedWitness ==
    \E i \in Procs :
        /\ dsp[i].Spec.Database # Nil
        /\ dsp[i].Spec.Database[1].ExternalDB # Nil
        /\ dsp[i].Spec.Database[1].ExternalDB[1].PasswordSecret = Nil
        /\ dsp[i].Spec.Database[1].MariaDB # Nil
        /\ dsp[i].Spec.Database[1].MariaDB[1].PasswordSecret # Nil
        /\ Len(pass[i].reads) >= 1
        /\ pass[i].reads[1].Name = "ds-pipeline-db-sample"
        /\ ~pass[i].reads[1].custom
        /\ pass[i].p.DBConnection.CredentialsSecret[1].Name = "ds-pipeline-db-sample"

\* The reads of a pass under the operator's own identities.
OperatorReads(ps) == { ps.reads[k] : k \in { m \in 1..Len(ps.reads) : ~ps.reads[m].custom } }

\* C11: passes for two resources of different names read no operator-owned
\* identity in common, and a pass for one resource never reports the
\* object-storage material a pass for the other generated and persisted.
ResourcesDoNotInterfere ==
    \A i, j \in Procs :
        dsp[i].Name # dsp[j].Name
            => /\ \A r \in OperatorReads(pass[i]) : \A q \in OperatorReads(pass[j]) :
                     r.Name # q.Name
               /\ ( /\ pass[i].storageCreate = "created"
                    /\ \E q \in ReadsOf(pass[j], "storage") : q.got = "found" )
                     => pass[j].p.ObjectStorageConnection.AccessKeyID
                          # pass[i].p.ObjectStorageConnection.AccessKeyID

\* The pass of worker i has left the component stages of ExtractParams.
PastComponents(i) == pass[i].pc \notin {"idle", "aborted"}

\* C12: a pass on a document of version v2 whose engine driver is neither
\* argo nor tekton fails with an error, whatever component blocks it has.
UnrecognizedDriverIsFatal ==
    \A i \in Procs :
        ( /\ dsp[i].Spec.DSPVersion = "v2"
          /\ dsp[i].Spec.EngineDriver \notin {"argo", "tekton"}
          /\ PastComponents(i) )
            => pass[i].pc = "returned" /\ pass[i].err # ""

\* The error of an engine driver that is not recognized.
EngineDriverError(d) ==
    "Illegal Engine Driver (" \o d.Spec.EngineDriver \o ") specified, cannot continue."

\* The image the registry gives at a path, the sentinel when it gives none.
FromConfig(path) == IF path \in DOMAIN viper THEN viper[path] ELSE "MustSetInConfig"

\* The nine components' paths: legacy, v2 with argo, v2 with tekton.
ImagePaths ==
    [server |-> << "Images.ApiServer", "ImagesV2.Argo.ApiServer", "ImagesV2.Tekton.ApiServer" >>,
     artifact |-> << "Images.Artifact", "ImagesV2.Argo.Artifact", "ImagesV2.Tekton.Artifact" >>,
     cache |-> << "Images.Cache", "ImagesV2.Argo.Cache", "ImagesV2.Tekton.Cache" >>,
     moveResults |-> << "Images.MoveResultsImage", "ImagesV2.Argo.MoveResultsImage",
                        "ImagesV2.Tekton.MoveResultsImage" >>,
     agent |-> << "Images.PersistentAgent", "ImagesV2.Argo.PersistentAgent",
                  "ImagesV2.Tekton.PersistentAgent" >>,
     workflow |-> << "Images.ScheduledWorkflow", "ImagesV2.Argo.ScheduledWorkflow",
                     "ImagesV2.Tekton.ScheduledWorkflow" >>,
     envoy |-> << "Images.MlmdEnvoy", "ImagesV2.Argo.MlmdEnvoy", "ImagesV2.Tekton.MlmdEnvoy" >>,
     grpc |-> << "Images.MlmdGRPC", "ImagesV2.Argo.MlmdGRPC", "ImagesV2.Tekton.MlmdGRPC" >>,
     writer |-> << "Images.MlmdWriter", "ImagesV2.Argo.MlmdWriter",
                   "ImagesV2.Tekton.MlmdWriter" >>]

\* The images the record of a pass holds, per component that it resolved.
ResolvedImages(ps) ==
    (IF ps.p.APIServer = Nil THEN << >>
     ELSE << <<"server", ps.p.APIServer[1].Image>>,
             <<"artifact", ps.p.APIServer[1].ArtifactImage>>,
             <<"cache", ps.p.APIServer[1].CacheImage>>,
             <<"moveResults", ps.p.APIServer[1].MoveResultsImage>> >>)
    \o (IF ps.p.PersistenceAgent = Nil THEN << >>
        ELSE << <<"agent", ps.p.PersistenceAgent[1].Image>> >>)
    \o (IF ps.p.ScheduledWorkflow = Nil THEN << >>
        ELSE << <<"workflow", ps.p.ScheduledWorkflow[1].Image>> >>)
    \o (IF ps.p.MLMD = Nil \/ ps.p.MLMD[1].Envoy = Nil THEN << >>
        ELSE << <<"envoy", ps.p.MLMD[1].Envoy[1].Image>>,
                <<"grpc", ps.p.MLMD[1].GRPC[1].Image>>,
                <<"writer", ps.p.MLMD[1].Writer[1].Image>> >>)

\* The image the document sets for a component, "" when it sets none.
UserImage(d, c) ==
    IF c \in {"server", "artifact", "cache", "moveResults"}
    THEN IF d.Spec.APIServer = Nil THEN ""
         ELSE IF c = "server" THEN d.Spec.APIServer[1].Image
         ELSE IF c = "artifact" THEN d.Spec.APIServer[1].ArtifactImage
         ELSE IF c = "cache" THEN d.Spec.APIServer[1].CacheImage
         ELSE d.Spec.APIServer[1].MoveResultsImage
    ELSE IF c = "agent"
    THEN IF d.Spec.PersistenceAgent = Nil THEN "" ELSE d.Spec.PersistenceAgent[1].Image
    ELSE IF c = "workflow"
    THEN IF d.Spec.ScheduledWorkflow = Nil THEN "" ELSE d.Spec.ScheduledWorkflow[1].Image
    ELSE IF d.Spec.MLMD = Nil THEN ""
    ELSE IF c = "envoy"
    THEN IF d.Spec.MLMD[1].Envoy = Nil THEN "" ELSE d.Spec.MLMD[1].Envoy[1].Image
    ELSE IF c = "grpc"
    THEN IF d.Spec.MLMD[1].GRPC = Nil THEN "" ELSE d.Spec.MLMD[1].GRPC[1].Image
    ELSE IF d.Spec.MLMD[1].Writer = Nil THEN "" ELSE d.Spec.MLMD[1].Writer[1].Image

\* Every image the pass resolved and the document does not set comes from
\* the path of family f
\* (1 legacy, 2 argo, 3 tekton) of its component.
ImagesOfFamily(d, ps, f) ==
    \A k \in 1..Len(ResolvedImages(ps)) :
        UserImage(d, ResolvedImages(ps)[k][1]) = ""
            => ResolvedImages(ps)[k][2] = FromConfig(ImagePaths[ResolvedImages(ps)[k][1]][f])

\* C13: on a document of version v2 every component's image comes from its
\* ImagesV2.Argo path when the engine driver is argo and from its
\* ImagesV2.Tekton path when it is tekton, no engine-driver error is raised,
\* and the eighteen paths are pairwise distinct.
V2MatrixSelectsFamily ==
    /\ Cardinality({ ImagePaths[c][f] : c \in DOMAIN ImagePaths, f \in {2, 3} }) = 18
    /\ \A i \in Procs :
          (dsp[i].Spec.DSPVersion = "v2" /\ PastComponents(i))
              => /\ dsp[i].Spec.EngineDriver = "argo"
                      => pass[i].err # EngineDriverError(dsp[i]) /\ ImagesOfFamily(dsp[i], pass[i], 2)
                 /\ dsp[i].Spec.EngineDriver = "tekton"
                      => pass[i].err # EngineDriverError(dsp[i]) /\ ImagesOfFamily(dsp[i], pass[i], 3)

\* C14: on a document whose version is not v2 every component's image comes
\* from its legacy Images path and no engine-driver error is raised, whatever
\* the engine driver.
LegacyIgnoresDriver ==
    \A i \in Procs :
        (dsp[i].Spec.DSPVersion # "v2" /\ PastComponents(i))
            => pass[i].err # EngineDriverError(dsp[i]) /\ ImagesOfFamily(dsp[i], pass[i], 1)

\* A legacy pass with the engine driver argo, and one with an unrecognized
\* engine driver, have resolved the nine images.
LegacyIgnoresDriverWitness ==
    \E i \in Procs :
        /\ dsp[i].Spec.DSPVersion = "v1"
        /\ dsp[i].Spec.EngineDriver \in {"argo", "kubeflow"}
        /\ Succeeded(i)
        /\ Len(ResolvedImages(pass[i])) = 9
        /\ pass[i].p.APIServer[1].Image = "registry/Images.ApiServer"
        /\ pass[i].p.MLMD[1].GRPC[1].Image = "MustSetInConfig"

\* The primary value of the secret a read found is missing or empty.
PrimaryUnusable(r) ==
    /\ r.got = "found"
    /\ store[r.Name] # Nil
    /\ Lookup(store[r.Name][1], SecretKeys(r.Name)[1]) = <<>>

\* C15: a pass that finds the secret of its effective identity without a
\* usable primary value (the password, the access key) has failed, whoever
\* owns the identity; it reports no generated material and creates nothing.
UnusableSecretIsFatal ==
    \A i \in Procs : \A k \in 1..Len(pass[i].reads) :
        LET r == pass[i].reads[k]
        IN  PrimaryUnusable(r)
                => /\ pass[i].pc = "returned"
                   /\ pass[i].err # ""
                   /\ ~ReportedNew(pass[i], r)
                   /\ pass[i].dbCreate = "none"
                   /\ pass[i].storageCreate = "none"

\* A pass read a usable database password and then found the operator's own
\* object-storage secret without an access key.
UnusableSecretWitness ==
    \E i \in Procs : \E k \in 1..Len(pass[i].reads) :
        /\ PrimaryUnusable(pass[i].reads[k])
        /\ pass[i].reads[k].cred = "storage"
        /\ ~pass[i].reads[k].custom
        /\ k = 2
        /\ pass[i].err = "Object Storage Password was not successfully retrieved"

\* The error the failed read of a credential's secret hands back.
FetchError(r) ==
    IF r.cred = "db" THEN "Unable to fetch DB secret"
    ELSE "Unable to fetch Storage secret"

\* C16: a pass whose read of a secret failed for a reason other than
\* not-found has returned the error of that read, has read that credential's
\* secret once only, reports no generated material, holds no material for the
\* credential and creates nothing, whoever owns the identity.
ReadFailureIsReturned ==
    \A i \in Procs : \A k \in 1..Len(pass[i].reads) :
        LET r == pass[i].reads[k]
        IN  r.got = "failed"
                => /\ pass[i].pc = "returned"
                   /\ pass[i].err = FetchError(r)
                   /\ k = Len(pass[i].reads)
                   /\ Cardinality({ m \in 1..Len(pass[i].reads) :
                                       pass[i].reads[m].cred = r.cred }) = 1
                   /\ ~ReportedNew(pass[i], r)
                   /\ \A m \in 1..Len(MaterialOf(pass[i], r)) : MaterialOf(pass[i], r)[m] = <<>>
                   /\ pass[i].dbCreate = "none"
                   /\ pass[i].storageCreate = "none"

\* The read of the operator's own database secret failed in one pass, and
\* the read of a user's object-storage secret failed in the other.
ReadFailureWitness ==
    \E i, j \in Procs :
        /\ Len(pass[i].reads) = 1
        /\ pass[i].reads[1].got = "failed"
        /\ ~pass[i].reads[1].custom
        /\ Len(pass[j].reads) = 2
        /\ pass[j].reads[2].got = "failed"
        /\ pass[j].reads[2].custom

\* C17: a step of a pass does nothing to the store but read it or create one
\* secret in it: no secret the store holds is changed or removed, the steps
\* of the resolver leave the store as it is, and a pass attempts the creation
\* of a credential's secret once at most, in the step made for it.
BoundedSideEffects ==
    [][ /\ \A n \in SecretNames : store[n] # Nil => store'[n] = store[n]
        /\ Cardinality({ n \in SecretNames : store'[n] # store[n] }) <= 1
        /\ \A i \in Procs :
              /\ Len(pass'[i].reads) > Len(pass[i].reads) => store' = store
              /\ pass'[i].dbCreate # pass[i].dbCreate
                    => \/ pass[i].pc = "createDBSecret" /\ pass[i].dbCreate = "none"
                       \/ pass[i].pc = "returned" /\ pass'[i].dbCreate = "none"
              /\ pass'[i].storageCreate # pass[i].storageCreate
                    => \/ /\ pass[i].pc = "createStorageSecret"
                          /\ pass[i].storageCreate = "none"
                       \/ pass[i].pc = "returned" /\ pass'[i].storageCreate = "none" ]_vars

\* A pass created the database secret it generated and found the
\* object-storage secret it generated created by the other pass meanwhile.
BoundedSideEffectsWitness ==
    \E i \in Procs :
        /\ pass[i].pc = "returned"
        /\ Len(pass[i].reads) = 2
        /\ pass[i].dbCreate = "created"
        /\ pass[i].storageCreate = "exists"

\* The object-storage stage of the pass went past its branch: it holds an
\* endpoint.
EndpointSet(ps) == ps.p.ObjectStorageConnection.Endpoint # ""

\* C18: the endpoint a pass resolved is scheme://host:port when the port it
\* resolved is not empty and scheme://host, nothing after the host, when it
\* is; the scheme, host and port are the document's in the external branch
\* and the managed store's in the other. A pass that succeeded holds one.
EndpointIsComposed ==
    \A i \in Procs :
        LET c == pass[i].p.ObjectStorageConnection
        IN  /\ Succeeded(i) => EndpointSet(pass[i])
            /\ EndpointSet(pass[i])
                  => /\ c.Port # "" => c.Endpoint = c.Scheme \o "://" \o c.Host \o ":" \o c.Port
                     /\ c.Port = "" => c.Endpoint = c.Scheme \o "://" \o c.Host
                     /\ IF UsingExternalStorage(dsp[i])
                        THEN LET ext == dsp[i].Spec.ObjectStorage[1].ExternalStorage[1]
                             IN  /\ c.Scheme = ext.Scheme
                                 /\ c.Host = ext.Host
                                 /\ c.Port = ext.Port
                        ELSE c.Endpoint = "http://minio-" \o dsp[i].Name \o "."
                                            \o dsp[i].Namespace \o ".svc.cluster.local:9000"

\* A pass succeeded on an external store whose port is empty.
EndpointWitness ==
    \E i \in Procs :
        /\ Succeeded(i)
        /\ UsingExternalStorage(dsp[i])
        /\ pass[i].p.ObjectStorageConnection.Port = ""
        /\ pass[i].p.ObjectStorageConnection.Endpoint = "https://s3.example.com"

\* C19: Secure of a pass that resolved its object storage is the value the
\* document gives when it gives one, TRUE for https and FALSE for any other
\* scheme when it gives none, and is set in every pass that succeeded.
SecureIsResolved ==
    \A i \in Procs :
        LET c == pass[i].p.ObjectStorageConnection
        IN  /\ Succeeded(i) => c.Secure # Nil
            /\ (EndpointSet(pass[i]) /\ UsingExternalStorage(dsp[i]))
                  => LET ext == dsp[i].Spec.ObjectStorage[1].ExternalStorage[1]
                     IN  /\ ext.Secure # Nil => c.Secure = ext.Secure
                         /\ ext.Secure = Nil => c.Secure = Some(c.Scheme = "https")

\* A resource requirement with its four quantities.
ResourcesSet(r) ==
    /\ r # Nil
    /\ r[1].Requests # Nil /\ r[1].Requests[1].CPU # "" /\ r[1].Requests[1].Memory # ""
    /\ r[1].Limits # Nil /\ r[1].Limits[1].CPU # "" /\ r[1].Limits[1].Memory # ""

\* The managed branch of a store is the one in effect and its block is b.
ManagedMariaDBIs(d, b) ==
    /\ d.Spec.Database # Nil
    /\ d.Spec.Database[1].MariaDB = Some(b)
    /\ ~UsingExternalDB(d)

ManagedMinioIs(d, b) ==
    /\ d.Spec.ObjectStorage # Nil
    /\ d.Spec.ObjectStorage[1].Minio = Some(b)
    /\ ~UsingExternalStorage(d)

\* Every field of the blocks the resolver completes is set in the record.
APIServerComplete(p) ==
    /\ p.APIServer # Nil
    /\ p.APIServer[1].Image # "" /\ p.APIServer[1].ArtifactImage # ""
    /\ p.APIServer[1].CacheImage # "" /\ p.APIServer[1].MoveResultsImage # ""
    /\ p.APIServer[1].ArtifactScriptConfigMap # Nil
    /\ p.APIServer[1].ArtifactScriptConfigMap[1].Name # ""
    /\ p.APIServer[1].ArtifactScriptConfigMap[1].Key # ""
    /\ ResourcesSet(p.APIServer[1].Resources)

AgentComplete(a) == a # Nil /\ a[1].Image # "" /\ ResourcesSet(a[1].Resources)

MLMDComplete(p) ==
    /\ p.MLMD # Nil
    /\ AgentComplete(p.MLMD[1].Envoy)
    /\ AgentComplete(p.MLMD[1].GRPC)
    /\ AgentComplete(p.MLMD[1].Writer)
    /\ p.MLMD[1].GRPC[1].Port # ""

MariaDBComplete(p) ==
    /\ AgentComplete(p.MariaDB)
    /\ p.MariaDB[1].Username # ""
    /\ p.MariaDB[1].DBName # ""

MlPipelineUIComplete(p) ==
    /\ AgentComplete(p.MlPipelineUI)
    /\ p.MlPipelineUI[1].ConfigMapName # ""

MinioComplete(p) ==
    /\ AgentComplete(p.Minio)
    /\ p.Minio[1].Bucket # ""
    /\ p.Minio[1].PVCSize # ""

MergedResources(user, default) ==
    IF user = Nil THEN Some(default)
    ELSE Some([Requests |-> IF user[1].Requests # Nil THEN user[1].Requests
                            ELSE default.Requests,
               Limits |-> IF user[1].Limits # Nil THEN user[1].Limits
                          ELSE default.Limits])

\* C21: the resources of every block a pass resolved are the component's
\* whole default pair when the document gives none, and otherwise the
\* document's requests and limits, each taken from the default where the
\* document leaves it out.
ResourcesAreMerged ==
    \A i \in Procs :
        LET d == dsp[i]
            p == pass[i].p
        IN  pass[i].pc \in {"SetupDBParams", "SetupObjectParams", "createDBSecret",
                            "createStorageSecret"} \/ Succeeded(i)
              => /\ d.Spec.APIServer # Nil
                       => p.APIServer[1].Resources
                            = MergedResources(d.Spec.APIServer[1].Resources,
                                              APIServerResourceRequirements)
                 /\ d.Spec.PersistenceAgent # Nil
                       => p.PersistenceAgent[1].Resources
                            = MergedResources(d.Spec.PersistenceAgent[1].Resources,
                                              PersistenceAgentResourceRequirements)
                 /\ d.Spec.ScheduledWorkflow # Nil
                       => p.ScheduledWorkflow[1].Resources
                            = MergedResources(d.Spec.ScheduledWorkflow[1].Resources,
                                              ScheduledWorkflowResourceRequirements)
                 /\ d.Spec.MlPipelineUI # Nil
                       => p.MlPipelineUI[1].Resources
                            = MergedResources(d.Spec.MlPipelineUI[1].Resources,
                                              MlPipelineUIResourceRequirements)
                 /\ (d.Spec.MLMD # Nil /\ d.Spec.MLMD[1].Envoy = Nil)
                       => p.MLMD[1].Envoy[1].Resources
                            = Some(MlmdEnvoyResourceRequirements)
                 /\ (pass[i].pc # "SetupDBParams" /\ ManagedMariaDBIs(d, MariaDBCustom))
                       => p.MariaDB[1].Resources
                            = MergedResources(MariaDBCustom.Resources,
                                              MariaDBResourceRequirements)
                 /\ (pass[i].pc # "SetupDBParams" /\ ManagedMariaDBIs(d, MariaDBDeployOnly))
                       => p.MariaDB[1].Resources = Some(MariaDBResourceRequirements)
                 /\ (Succeeded(i) /\ ManagedMinioIs(d, MinioCustom))
                       => p.Minio[1].Resources
                            = MergedResources(MinioCustom.Resources,
                                              MinioResourceRequirements)
                 /\ (Succeeded(i) /\ ManagedMinioIs(d, MinioImageOnly))
                       => p.Minio[1].Resources = Some(MinioResourceRequirements)

\* The family of paths the selector of the code takes for a document.
SelectedFamily(d) ==
    IF d.Spec.DSPVersion # "v2" THEN 1
    ELSE IF d.Spec.EngineDriver = "argo" THEN 2
    ELSE IF d.Spec.DSPVersion = "tekton" THEN 3
    ELSE 1

\* C22: every component image a pass resolved is the document's when the
\* document sets one, else the registry's value at the selected path when
\* the registry has the path, else MustSetInConfig; the managed database's
\* image likewise. A pass fails before its first read only for the missing
\* image of the UI or the engine driver, never for a path the registry lacks.
ImagePrecedence ==
    \A i \in Procs :
        PastComponents(i)
            => /\ \A k \in 1..Len(ResolvedImages(pass[i])) :
                     LET c == ResolvedImages(pass[i])[k][1]
                         path == ImagePaths[c][SelectedFamily(dsp[i])]
                     IN  ResolvedImages(pass[i])[k][2] =
                             IF UserImage(dsp[i], c) # "" THEN UserImage(dsp[i], c)
                             ELSE IF path \in DOMAIN viper THEN viper[path]
                             ELSE "MustSetInConfig"
               /\ (pass[i].reads # <<>> /\ ~UsingExternalDB(dsp[i]))
                     => pass[i].p.MariaDB[1].Image =
                            IF dsp[i].Spec.Database[1].MariaDB # Nil
                               /\ dsp[i].Spec.Database[1].MariaDB[1].Image # ""
                            THEN dsp[i].Spec.Database[1].MariaDB[1].Image
                            ELSE "registry/Images.MariaDB"
               /\ (pass[i].pc = "returned" /\ pass[i].reads = <<>>)
                     => \/ MlPipelineUIImageMissing(dsp[i])
                        \/ pass[i].err = EngineDriverError(dsp[i])

\* A pass succeeded with the image the user set for the API server, the
\* registry's image for its artifact step, and the sentinel for the gRPC
\* server, whose path the registry lacks.
ImagePrecedenceWitness ==
    \E i \in Procs :
        /\ Succeeded(i)
        /\ dsp[i].Spec.APIServer = Some(APIServerUserImage)
        /\ pass[i].p.APIServer[1].Image = "quay.io/apiserver:custom"
        /\ pass[i].p.APIServer[1].ArtifactImage = "registry/Images.Artifact"
        /\ "Images.MlmdGRPC" \notin DOMAIN viper
        /\ pass[i].p.MLMD[1].GRPC[1].Image = "MustSetInConfig"

MLMDRequested(d) == d.Spec.MLMD # Nil /\ d.Spec.MLMD[1].Deploy

\* C24: a pass over a document that does not ask for the metadata service
\* (no block, or deploy off) defaults none of its subcomponents and does not
\* fail on the engine driver; a pass over a document that asks for it, past
\* the metadata stage, holds the three subcomponents, each with the image of
\* the selected path and its own default resources.
MLMDOnlyWhenRequested ==
    \A i \in Procs :
        PastComponents(i)
            => IF MLMDRequested(dsp[i])
               THEN (pass[i].err = "" \/ pass[i].reads # <<>>)
                      => /\ MLMDComplete(pass[i].p)
                         /\ pass[i].p.MLMD[1].Envoy[1].Resources
                                = Some(MlmdEnvoyResourceRequirements)
                         /\ pass[i].p.MLMD[1].GRPC[1].Resources
                                = Some(MlmdGRPCResourceRequirements)
                         /\ pass[i].p.MLMD[1].Writer[1].Resources
                                = Some(MlmdWriterResourceRequirements)
                         /\ pass[i].p.MLMD[1].Envoy[1].Image
                                = FromConfig(ImagePaths.envoy[SelectedFamily(dsp[i])])
                         /\ pass[i].p.MLMD[1].GRPC[1].Image
                                = FromConfig(ImagePaths.grpc[SelectedFamily(dsp[i])])
                         /\ pass[i].p.MLMD[1].Writer[1].Image
                                = FromConfig(ImagePaths.writer[SelectedFamily(dsp[i])])
               ELSE /\ pass[i].err # EngineDriverError(dsp[i])
                    /\ pass[i].p.MLMD # Nil
                          => /\ pass[i].p.MLMD[1].Envoy = Nil
                             /\ pass[i].p.MLMD[1].GRPC = Nil
                             /\ pass[i].p.MLMD[1].Writer = Nil

\* C25: a pass that returned an error from the database stage holds no
\* password, and one that returned an error from the object-storage stage
\* holds neither an access key nor a secret key: the credentials of the
\* failed stage are as they were before it.
FailedStageLeavesCredentials ==
    \A i \in Procs :
        (pass[i].pc = "returned" /\ pass[i].err # "" /\ pass[i].reads # <<>>)
            => LET r == pass[i].reads[Len(pass[i].reads)]
               IN  \A m \in 1..Len(MaterialOf(pass[i], r)) : MaterialOf(pass[i], r)[m] = <<>>

\* C26: a pass that succeeded holds a password, an access key and a secret
\* key, none of them empty, read or generated; a pass that found the
\* object-storage secret with an access key and without a secret key has
\* failed.
SucceededHoldsCredentials ==
    \A i \in Procs :
        /\ Succeeded(i)
              => /\ pass[i].p.DBConnection.Password # <<>>
                 /\ pass[i].p.ObjectStorageConnection.AccessKeyID # <<>>
                 /\ pass[i].p.ObjectStorageConnection.SecretAccessKey # <<>>
        /\ \A k \in 1..Len(pass[i].reads) :
              LET r == pass[i].reads[k]
              IN  (r.cred = "storage" /\ r.got = "found"
                     /\ Lookup(store[r.Name][1], SecretKeys(r.Name)[1]) # <<>>
                     /\ Lookup(store[r.Name][1], SecretKeys(r.Name)[2]) = <<>>)
                    => pass[i].pc = "returned" /\ pass[i].err # ""

\* A pass failed on the operator's object-storage secret, which holds an
\* access key and no secret key; the password it read is in the record.
SucceededHoldsCredentialsWitness ==
    \E i \in Procs :
        /\ Len(pass[i].reads) = 2
        /\ pass[i].reads[2].got = "found"
        /\ store[pass[i].reads[2].Name] = Some(HalfData(ObjectStorageSecretName))
        /\ pass[i].err = "Object Storage Password was not successfully retrieved"
        /\ pass[i].p.DBConnection.Password # <<>>

\* The error of the component stage.
MlPipelineUIImageError == "mlPipelineUI specified, but no image provided in the DSPA CR Spec"

\* The database read of a pass let the pass go on.
DBReadPassed(r) ==
    /\ r.cred = "db"
    /\ r.got # "failed"
    /\ ~(r.custom /\ r.got = "notfound")
    /\ ~PrimaryUnusable(r)

\* C27: a pass runs component defaulting, the metadata stage, the database
\* stage and the object-storage stage in that order and stops at the first
\* that fails: the missing UI image is reported before the engine driver,
\* either of them before any read; the database secret is read before the
\* object-storage secret, which is read only after a database stage that
\* passed, and a pass reads each at most once.
StagesInOrder ==
    \A i \in Procs :
        /\ (PastComponents(i) /\ dsp[i].Spec.MlPipelineUI = Some(MlPipelineUIDeployOnly))
              => /\ pass[i].pc = "returned"
                 /\ pass[i].err = MlPipelineUIImageError
                 /\ pass[i].reads = <<>>
        /\ (PastComponents(i) /\ pass[i].err = EngineDriverError(dsp[i]))
              => pass[i].pc = "returned" /\ pass[i].reads = <<>>
        /\ Len(pass[i].reads) <= 2
        /\ Len(pass[i].reads) >= 1 => pass[i].reads[1].cred = "db"
        /\ Len(pass[i].reads) = 2
              => pass[i].reads[2].cred = "storage" /\ DBReadPassed(pass[i].reads[1])
        /\ (Len(pass[i].reads) = 1 /\ ~DBReadPassed(pass[i].reads[1]))
              => pass[i].pc = "returned" /\ pass[i].err # ""

\* One pass stopped at the UI's missing image over a document whose engine
\* driver the metadata stage would have refused.
StagesInOrderWitness ==
    \E i \in Procs :
        /\ pass[i].pc = "returned"
        /\ pass[i].err = MlPipelineUIImageError
        /\ MLMDIllegalEngineDriver(dsp[i], dsp[i].Spec.MLMD)
        /\ pass[i].reads = <<>>

\* C28: a pass over a document with an external database (an external
\* object store) reports no generated material for that credential, and when
\* it succeeded it found the credential's secret in the store.
ExternalNeverGenerates ==
    \A i \in Procs :
        /\ UsingExternalDB(dsp[i])
              => /\ ~pass[i].createNewDBSecret
                 /\ pass[i].p.DBConnection.Password \notin GeneratedPasswords
                 /\ Succeeded(i) => \A r \in ReadsOf(pass[i], "db") : r.got = "found"
        /\ UsingExternalStorage(dsp[i])
              => /\ ~pass[i].createNewStorageSecret
                 /\ Succeeded(i) => \A r \in ReadsOf(pass[i], "storage") : r.got = "found"

\* C29: in the managed branch the bucket of the connection a pass resolved
\* is the bucket of the Minio block it resolved: the document's when it
\* names one, the default bucket otherwise.
ManagedBucketIsMinioBucket ==
    \A i \in Procs :
        (EndpointSet(pass[i]) /\ ~UsingExternalStorage(dsp[i]))
            => /\ pass[i].p.ObjectStorageConnection.Bucket = pass[i].p.Minio[1].Bucket
               /\ pass[i].p.ObjectStorageConnection.Bucket =
                      IF dsp[i].Spec.ObjectStorage[1].Minio[1].Bucket # ""
                      THEN dsp[i].Spec.ObjectStorage[1].Minio[1].Bucket
                      ELSE "mlpipeline"

\* C30: ReconcileMLMD hands the nine templates to Apply one after the other
\* in the order of the list; once Apply has failed on one it has returned
\* that error with nothing handed over after the failed template; it returns
\* nil only with all nine applied when the metadata service is in use, and
\* with none when it is not.
TemplatesInOrderUntilError ==
    /\ Len(mlmdTemplates) = 9
    /\ Len(mlmdLoop.attempted) <= 9
    /\ \A k \in 1..Len(mlmdLoop.attempted) : mlmdLoop.attempted[k] = mlmdTemplates[k]
    /\ mlmdLoop.failedAt # 0
          => /\ mlmdLoop.pc = "returned"
             /\ mlmdLoop.err = "apply failed"
             /\ Len(mlmdLoop.attempted) = mlmdLoop.failedAt
    /\ (mlmdLoop.pc = "returned" /\ mlmdLoop.err = "")
          => /\ mlmdLoop.failedAt = 0
             /\ Len(mlmdLoop.attempted) = IF UsingMLMD(dsp["r1"]) THEN 9 ELSE 0
    /\ mlmdLoop.pc = "applying" => Len(mlmdLoop.attempted) < 9

\* The fourth template failed: three were applied before it, none after.
TemplatesWitness ==
    /\ mlmdLoop.pc = "returned"
    /\ mlmdLoop.err = "apply failed"
    /\ mlmdLoop.failedAt = 4
    /\ Len(mlmdLoop.attempted) = 4
    /\ mlmdLoop.attempted[4] = "ml-metadata/metadata-grpc.service.yaml.tmpl"

====
